---- MODULE Spec2Model ----
(***************************************************************************)
(* A model of the vision grammar engine: Definitions and their merge       *)
(* (modules.py), Modules and the Lexicon (modules.py), the tokenizer       *)
(* (tokenizer.py), the indentation scope handling of the file scanner      *)
(* (visionscanner.py, visioninterpreter.py) and DefinitionAlias targets.   *)
(***************************************************************************)
EXTENDS Integers, Sequences, FiniteSets, TLC

VARIABLES
    definitions,    \* Module.definitions of every Module: name -> [kw, tt] maps
    required,       \* Module.required_modules of every Module (ordered)
    modules,        \* Lexicon.modules: the ordered set of active Modules
    ndefs,          \* number of add_definition calls made so far
    res,            \* what the last operation was and how it ended
    subject,        \* a Definition that update() is called on
    upd,            \* the last update() call: self before it, other, merge, outcome
    nupd,           \* number of update() calls made so far
    code,           \* tokenize: the text of the command
    start,          \* tokenize: position recognition has reached (0-based)
    end,            \* tokenize: where the unrecognized text began, or None
    found_tokens,   \* tokenize: the tokens made so far
    def_items,      \* tokenize: lexicon.items() as the current pass got it
    match,          \* tokenize: the match of the last pattern tried, or None
    pc,             \* tokenize: where the call stands
    bad,            \* tokenize: the exception the call raised
    prior,          \* keywords of the tokens earlier tokenize calls returned or made
    nlines,         \* number of tokenize calls made so far
    children,       \* parser.children: the commands parsed so far
    file_line,      \* the line at the file scanner's position, once it was read
    file_position,  \* VisionFileScanner.position (0-based)
    file_done,      \* the file scanner ran out of lines and was removed
    sub_lines,      \* lines of the subcommand scanner
    sub_position,   \* position of the subcommand scanner (0-based)
    scanner,        \* parser.scanner: the scanner the parser reads from
    outcome,        \* how the last call of the parser's next() went
    alias_target,   \* target of every DefinitionAlias made so far
    alias_res,      \* what the last DefinitionAlias operation was and how it ended
    alias_own,      \* name, pattern and title of every DefinitionAlias made so far
    lines,          \* Scanner.lines
    position,       \* Scanner.position (0-based)
    returned,       \* line of every Command next() has returned, in order
    gen,            \* where the generator made by reversed(scanner) stands
    yielded,        \* line of every Command that generator has yielded, in order
    scan_res,       \* what the last Scanner operation was and how it ended
    nnext,          \* number of next() calls made so far
    interpreter,    \* the Interpreter: errorfound, interactivity_enabled, its webdriver
    objects         \* the inner hook dicts as objects, and which of them each Definition holds

lexVars == <<definitions, required, modules, ndefs, res>>

updVars == <<subject, upd, nupd>>

tokVars == <<code, start, end, found_tokens, def_items, match, pc, bad, prior, nlines>>

scopeVars == <<children, file_line, file_position, file_done, sub_lines, sub_position,
               scanner, outcome>>

aliasVars == <<alias_target, alias_res, alias_own>>

scanVars == <<lines, position, returned, gen, yielded, scan_res, nnext>>

interpVars == <<interpreter>>

objVars == <<objects>>

vars == <<lexVars, updVars, tokVars, scopeVars, aliasVars, scanVars, interpVars, objVars>>

\* the variables the Lexicon operations leave alone
nonLexVars == <<updVars, tokVars, scopeVars, aliasVars, scanVars, interpVars, objVars>>

\* the variables update() on a single Definition leaves alone
nonUpdVars == <<lexVars, tokVars, scopeVars, aliasVars, scanVars, interpVars, objVars>>

\* the variables tokenize() leaves alone; it reads the Lexicon and its hooks
\* may append to Lexicon.modules
nonTokVars == <<definitions, required, ndefs, res, updVars, scopeVars, aliasVars,
                scanVars, interpVars, objVars>>

\* the variables the parser and its scanners leave alone
nonScopeVars == <<lexVars, updVars, tokVars, aliasVars, scanVars, interpVars, objVars>>

\* the variables the DefinitionAlias operations leave alone
nonAliasVars == <<lexVars, updVars, tokVars, scopeVars, scanVars, interpVars, objVars>>

\* the variables the Scanner operations leave alone
nonScanVars == <<lexVars, updVars, tokVars, scopeVars, aliasVars, interpVars, objVars>>

-----------------------------------------------------------------------------
(* Bounds of the model *)

\* lines of a Scanner
MaxScanLines == 3

\* next() calls on a Scanner explored in one behaviour
MaxNext == 4

\* add_definition calls explored in one behaviour
MaxDefs == 3

\* update() calls explored in one behaviour
MaxUpdates == 3

\* words in one line handed to tokenize
MaxWords == 3

\* tokenize calls made on one Lexicon
MaxLines == 2

\* lines of the file the file scanner reads
MaxFileLines == 4

\* leading indentation tokens on one line of the file
MaxDepth == 2

\* DefinitionAlias objects made in one behaviour
MaxAliases == 3

-----------------------------------------------------------------------------
(* Python values *)

NoneVal == "None"

\* None where the other values are positions
NoneInt == 0 - 1

\* A pattern or a name that is None: a sequence no text is equal to
NoneSeq == <<"\\None">>

\* the regular expression [ \t]+ as one pattern atom
WS == "[ \\t]+"

\* the atom of a pattern that matches a run of blanks or nothing: [ \t]*
WS0 == "[ \\t]*"

IsSpace(c) == c \in {" ", "\t"}

Ok(v) == [kind |-> "ok", val |-> v]
Raise(e) == [kind |-> e]
IsOk(o) == o.kind = "ok"

-----------------------------------------------------------------------------
(* tokens.py: the categories, a single-inheritance hierarchy *)

TokenTypes == {"ParseUnit", "Command", "Token", "Verb", "Noun", "ScopeChange", "Seperator"}

Parent(tt) ==
    CASE tt = "Command" -> "ParseUnit"
      [] tt = "Token" -> "ParseUnit"
      [] tt = "Verb" -> "Token"
      [] tt = "Noun" -> "Token"
      [] tt = "ScopeChange" -> "Token"
      [] tt = "Seperator" -> "Token"
      [] OTHER -> NoneVal

\* cls.__mro__ restricted to the subclasses of ParseUnit, most specific first
RECURSIVE Mro(_)
Mro(tt) == IF tt = "ParseUnit" THEN <<tt>> ELSE <<tt>> \o Mro(Parent(tt))

SeqToSet(s) == {s[i] : i \in 1..Len(s)}

Reverse(s) == [i \in 1..Len(s) |-> s[Len(s) + 1 - i]]

IsSubclass(a, b) == b \in SeqToSet(Mro(a))

-----------------------------------------------------------------------------
(* modules.py: FullDefinition *)

EmptyMap == [x \in {} |-> NoneVal]

\* an inner hook dict of consumers ({hook name: callable or None}), or None
Bucket(h) == [isNone |-> FALSE, hooks |-> h]
NoneBucket == [isNone |-> TRUE, hooks |-> EmptyMap]
BucketIsNone(b) == b.isNone
ValueIsNone(v) == v = NoneVal

\* r"[ \t]+".join(name.split())
DefaultPattern(name) ==
    LET n == Len(name)
        Keep(i) ==
            IF ~IsSpace(name[i]) THEN <<name[i]>>
            ELSE IF i > 1 /\ ~IsSpace(name[i - 1])
                     /\ (\E j \in (i + 1)..n : ~IsSpace(name[j]))
                 THEN <<WS>>
                 ELSE <<>>
        RECURSIVE Cat(_)
        Cat(i) == IF i > n THEN <<>> ELSE Keep(i) \o Cat(i + 1)
    IN Cat(1)

\* FullDefinition(...) with __attrs_post_init__
FullDefinition(name, token_type, pattern, consumers, interpretations, outputters) ==
    [name |-> name,
     token_type |-> token_type,
     pattern |-> IF pattern = NoneSeq /\ name # NoneSeq
                 THEN DefaultPattern(name) ELSE pattern,
     consumers |-> consumers,
     interpretations |-> interpretations,
     outputters |-> outputters]

\* a pattern that tests False: None or ''
PatternFalsy(p) == p = NoneSeq \/ p = <<>>

\* DefinitionAlias(name, pattern, target) as update() reads it: name and
\* pattern are the alias's own, every other attribute is the target's
DefinitionAlias(name, pattern, target) ==
    [target EXCEPT
        !.name = name,
        !.pattern = IF pattern = NoneSeq /\ name # NoneSeq /\ name # <<>>
                    THEN DefaultPattern(name) ELSE pattern]

\* merge_implementations as it would be if a cue also emptied the bucket of
\* the hooks other does not carry: only other's truthy hooks remain
MergeImplementationsDropsSiblings(self_implementations, other_implementations) ==
    [hook \in DOMAIN other_implementations \
              {h \in DOMAIN other_implementations : ValueIsNone(other_implementations[h])}
        |-> other_implementations[hook]]

\* update.merge_implementations
MergeImplementations(self_implementations, other_implementations) ==
    LET removed == {hook \in DOMAIN other_implementations \cap DOMAIN self_implementations :
                        ValueIsNone(other_implementations[hook])}
    IN [hook \in (DOMAIN self_implementations \cup DOMAIN other_implementations) \ removed |->
            IF hook \in DOMAIN other_implementations
            THEN other_implementations[hook]
            ELSE self_implementations[hook]]

MergeBuckets(self_bucket, other_bucket) ==
    Bucket(MergeImplementations(self_bucket.hooks, other_bucket.hooks))

\* the default merge_implementations_func, lambda x, y: None: self's entry stays
MergeNothing(self_value, other_value) == self_value

\* `hooks is None` for an entry of consumers (nested) or of a flat hook dict
HooksIsNone(hooks, nested) == IF nested THEN BucketIsNone(hooks) ELSE ValueIsNone(hooks)

\* merge_implementations_func: merge_implementations for consumers, the default
\* no-op otherwise
MergeImplementationsFunc(self_value, other_value, nested) ==
    IF nested THEN MergeBuckets(self_value, other_value)
    ELSE MergeNothing(self_value, other_value)

\* update.update_hooks
UpdateHooks(self_hooks, other_hooks, merge, nested) ==
    LET removed == {cls \in DOMAIN other_hooks \cap DOMAIN self_hooks :
                        HooksIsNone(other_hooks[cls], nested)}
    IN [cls \in (DOMAIN self_hooks \cup DOMAIN other_hooks) \ removed |->
            IF cls \notin DOMAIN other_hooks THEN self_hooks[cls]
            ELSE IF cls \notin DOMAIN self_hooks THEN other_hooks[cls]
            ELSE IF merge /\ ~HooksIsNone(self_hooks[cls], nested)
                 THEN MergeImplementationsFunc(self_hooks[cls], other_hooks[cls], nested)
                 ELSE other_hooks[cls]]

\* update as it would be if the pattern of other always replaced that of self
UpdateReplacesPattern(self, other, merge) ==
    IF ~(IsSubclass(other.token_type, self.token_type)
         \/ IsSubclass(self.token_type, other.token_type))
    THEN Raise("ValueError")
    ELSE IF self.name # other.name
    THEN Raise("ValueError")
    ELSE Ok([self EXCEPT
            !.pattern = other.pattern,
            !.consumers = UpdateHooks(self.consumers, other.consumers, merge, TRUE),
            !.outputters = UpdateHooks(self.outputters, other.outputters, merge, FALSE),
            !.interpretations = UpdateHooks(self.interpretations, other.interpretations, merge, FALSE)])

\* update as it would be without the comparison of the names
UpdateAnyName(self, other, merge) ==
    IF ~(IsSubclass(other.token_type, self.token_type)
         \/ IsSubclass(self.token_type, other.token_type))
    THEN Raise("ValueError")
    ELSE Ok([self EXCEPT
            !.pattern = IF merge
                        THEN (IF PatternFalsy(other.pattern) THEN self.pattern
                              ELSE other.pattern)
                        ELSE other.pattern,
            !.consumers = UpdateHooks(self.consumers, other.consumers, merge, TRUE),
            !.outputters = UpdateHooks(self.outputters, other.outputters, merge, FALSE),
            !.interpretations = UpdateHooks(self.interpretations, other.interpretations, merge, FALSE)])

\* FullDefinition.update: Ok(the updated self) or the exception raised
Update(self, other, merge) ==
    IF ~(IsSubclass(other.token_type, self.token_type)
         \/ IsSubclass(self.token_type, other.token_type))
    THEN Raise("ValueError")
    ELSE IF self.name # other.name
    THEN Raise("ValueError")
    ELSE Ok([self EXCEPT
            !.pattern = IF merge
                        THEN (IF PatternFalsy(other.pattern) THEN self.pattern
                              ELSE other.pattern)
                        ELSE other.pattern,
            !.consumers = UpdateHooks(self.consumers, other.consumers, merge, TRUE),
            !.outputters = UpdateHooks(self.outputters, other.outputters, merge, FALSE),
            !.interpretations = UpdateHooks(self.interpretations, other.interpretations, merge, FALSE)])

-----------------------------------------------------------------------------
(* modules.py: Module *)

\* an entry of Module.definitions: a Definition, or None (removed here)
NoneEntry == [isNone |-> TRUE]
DefEntry(d) == [isNone |-> FALSE, def |-> d]

\* Module.definitions is one dict keyed by keyword strings and by token type
\* classes; kw holds the entries under strings, tt those under classes
EmptyDefinitions == [kw |-> EmptyMap, tt |-> EmptyMap]

\* Module.__getitem__, the loop over reversed(toktype.__mro__)
RECURSIVE ApplyDefaults(_, _, _, _, _)
ApplyDefaults(defs, keyword, chain, i, definition) ==
    IF i > Len(chain) \/ ~IsOk(definition) THEN definition
    ELSE IF chain[i] \notin DOMAIN defs.tt
    THEN ApplyDefaults(defs, keyword, chain, i + 1, definition)
    ELSE IF defs.tt[chain[i]].isNone THEN Raise("RemovedDefinition")
    ELSE ApplyDefaults(defs, keyword, chain, i + 1,
            Update(definition.val,
                   DefinitionAlias(keyword, defs.tt[chain[i]].def.pattern,
                                   defs.tt[chain[i]].def),
                   TRUE))

\* Module.__getitem__: module[keyword] (token_type = None) or
\* module[keyword, token_type]
ModuleGetItem(defs, keyword, token_type) ==
    LET has == keyword \in DOMAIN defs.kw
    IN IF has /\ defs.kw[keyword].isNone THEN Raise("RemovedDefinition")
       ELSE IF token_type = NoneVal /\ ~has THEN Raise("KeyError")
       ELSE LET tt == IF token_type = NoneVal
                      THEN defs.kw[keyword].def.token_type ELSE token_type
                walked == ApplyDefaults(defs, keyword, Reverse(Mro(tt)), 1,
                            Ok(FullDefinition(keyword, tt, NoneSeq,
                                              EmptyMap, EmptyMap, EmptyMap)))
            IN IF ~IsOk(walked) THEN walked
               ELSE IF has THEN Update(walked.val, defs.kw[keyword].def, TRUE)
               ELSE walked

\* OrderedSet.__or__
OrderedUnion(s, t) == s \o SelectSeq(t, LAMBDA x : x \notin SeqToSet(s))

\* Module.available_modules
ModuleAvailableModules(m) == OrderedUnion(required[m], <<m>>)

-----------------------------------------------------------------------------
(* modules.py: Lexicon *)

\* Lexicon.available_modules (reduce over self.modules, which must not be empty)
RECURSIVE AvailableFrom(_, _)
AvailableFrom(i, acc) ==
    IF i > Len(modules) THEN acc
    ELSE AvailableFrom(i + 1, OrderedUnion(acc, ModuleAvailableModules(modules[i])))

AvailableModules == AvailableFrom(1, <<>>)

\* Lexicon.__getitem__.clean_hooks; the inner clean_implementations is the
\* default no-op
CleanHooks(hooks, nested) ==
    [cls \in {c \in DOMAIN hooks : ~HooksIsNone(hooks[c], nested)} |-> hooks[cls]]

NoDefinition == [kind |-> "none"]

\* Lexicon.__getitem__, the loop over self.available_modules
RECURSIVE FoldModules(_, _, _, _, _)
FoldModules(avail, i, key, token_type, definition) ==
    IF i > Len(avail) \/ definition.kind \notin {"ok", "none"} THEN definition
    ELSE LET defn == ModuleGetItem(definitions[avail[i]], key, token_type)
         IN IF defn.kind = "RemovedDefinition"
            THEN FoldModules(avail, i + 1, key, token_type, NoDefinition)
            ELSE IF ~IsOk(defn) THEN defn
            ELSE FoldModules(avail, i + 1, key, token_type,
                    Update(IF definition.kind = "none"
                           THEN FullDefinition(key, token_type, NoneSeq,
                                               EmptyMap, EmptyMap, EmptyMap)
                           ELSE definition.val,
                           DefinitionAlias(key, defn.val.pattern, defn.val),
                           TRUE))

MaxOf(S) == CHOOSE x \in S : \A y \in S : y <= x

\* Lexicon.__getitem__: Ok(the composite Definition) or the exception raised
LexiconGetItem(key) ==
    IF Len(modules) = 0 THEN Raise("TypeError")
    ELSE
    LET avail == AvailableModules
        mentions == {i \in 1..Len(avail) : key \in DOMAIN definitions[avail[i]].kw}
    IN IF mentions = {} THEN Raise("KeyError")
       ELSE LET nearest == ModuleGetItem(definitions[avail[MaxOf(mentions)]], key, NoneVal)
            IN IF ~IsOk(nearest) THEN nearest
               ELSE LET definition == FoldModules(avail, 1, key,
                                                  nearest.val.token_type, NoDefinition)
                    IN IF definition.kind = "none" THEN Raise("KeyError")
                       ELSE IF ~IsOk(definition) THEN definition
                       ELSE Ok([definition.val EXCEPT
                                !.consumers = CleanHooks(@, TRUE),
                                !.interpretations = CleanHooks(@, FALSE),
                                !.outputters = CleanHooks(@, FALSE)])

-----------------------------------------------------------------------------
(* modules.py: Lexicon.keys, values, items *)

\* the update of key_set in Lexicon.keys for one Module: Ok(key_set) or the
\* exception module[keyword] raised
KeysOfModule(m, key_set) ==
    LET kws == DOMAIN definitions[m].kw
        got == [k \in kws |-> ModuleGetItem(definitions[m], k, NoneVal)]
        failed == {k \in kws : ~IsOk(got[k]) /\ got[k].kind # "RemovedDefinition"}
    IN IF failed # {} THEN Raise(got[CHOOSE k \in failed : TRUE].kind)
       ELSE Ok((key_set \ {k \in kws : ~IsOk(got[k])}) \cup {k \in kws : IsOk(got[k])})

\* Lexicon.keys, the loop over self.available_modules
RECURSIVE KeysFrom(_, _, _)
KeysFrom(avail, i, key_set) ==
    IF i > Len(avail) \/ ~IsOk(key_set) THEN key_set
    ELSE KeysFrom(avail, i + 1, KeysOfModule(avail[i], key_set.val))

\* Lexicon.keys
LexiconKeys ==
    IF Len(modules) = 0 THEN Raise("TypeError")
    ELSE KeysFrom(AvailableModules, 1, Ok({}))

\* Lexicon.items: Ok(the set of (keyword, definition) pairs) or the exception
\* raised by keys() or by lexicon[keyword] in values()
LexiconItems ==
    LET keys == LexiconKeys
    IN IF ~IsOk(keys) THEN keys
       ELSE LET failed == {k \in keys.val : ~IsOk(LexiconGetItem(k))}
            IN IF failed # {}
               THEN Raise(LexiconGetItem(CHOOSE k \in failed : TRUE).kind)
               ELSE Ok({<<k, LexiconGetItem(k).val>> : k \in keys.val})

-----------------------------------------------------------------------------
(* The vocabulary the Lexicon behaviours are built from *)

ModuleNames == {"A", "B", "C"}

click == <<"c", "l", "i", "c", "k">>

Keywords == {click}

\* the Definitions handed to add_definition
DefinitionPool ==
    { FullDefinition(click, "Verb", NoneSeq,
                     "Command" :> Bucket("preconsume" :> "f1"),
                     "Command" :> "f1",
                     "raw" :> "f1"),
      FullDefinition(click, "Verb", <<"c", "k">>,
                     "Command" :> Bucket("preconsume" :> "f2" @@ "postconsume" :> "f2"),
                     EmptyMap,
                     "raw" :> "f2"),
      FullDefinition(click, "Verb", <<>>,
                     "Command" :> Bucket("postconsume" :> NoneVal) @@ "Verb" :> NoneBucket,
                     "Command" :> "f3",
                     EmptyMap),
      FullDefinition(click, "Noun", NoneSeq,
                     "Verb" :> Bucket("preconsume" :> "f4"),
                     EmptyMap, EmptyMap),
      FullDefinition(click, "Token", NoneSeq,
                     "Command" :> Bucket("postconsume" :> "f5")
                        @@ "Verb" :> Bucket("preconsume" :> "f5"),
                     EmptyMap,
                     "pretty" :> "f5") }

\* the Definition of a token type default (name=None)
VerbDefault ==
    FullDefinition(NoneSeq, "Verb", NoneSeq,
                   "Command" :> Bucket("postconsume" :> "f6"),
                   EmptyMap, EmptyMap)

-----------------------------------------------------------------------------
(* Operations on Modules and on the Lexicon *)

NoRes == [op |-> "none"]

\* Module.add_definition(definition), merge=True, for a real Definition
AddDefinition(m, d) ==
    /\ ndefs < MaxDefs
    /\ LET defs == definitions[m]
           named == d.name # NoneSeq
           key == IF named THEN d.name ELSE d.token_type
           old == IF named THEN defs.kw ELSE defs.tt
           merged == IF key \in DOMAIN old /\ ~old[key].isNone
                     THEN Update(old[key].def, d, TRUE)
                     ELSE Ok(d)
       IN /\ definitions' =
                IF ~IsOk(merged) THEN definitions
                ELSE IF named
                THEN [definitions EXCEPT ![m].kw = (key :> DefEntry(merged.val)) @@ @]
                ELSE [definitions EXCEPT ![m].tt = (key :> DefEntry(merged.val)) @@ @]
          /\ res' = NoRes
    /\ ndefs' = ndefs + 1
    /\ UNCHANGED <<required, modules, nonLexVars>>

\* Module.add_definition(name=keyword, definition=None)
RemoveKeyword(m, keyword) ==
    /\ ndefs < MaxDefs
    /\ definitions' = [definitions EXCEPT ![m].kw = (keyword :> NoneEntry) @@ @]
    /\ res' = NoRes
    /\ ndefs' = ndefs + 1
    /\ UNCHANGED <<required, modules, nonLexVars>>

\* Module.add_definition(name=token type, definition=None)
RemoveTokenType(m, tt) ==
    /\ ndefs < MaxDefs
    /\ definitions' = [definitions EXCEPT ![m].tt = (tt :> NoneEntry) @@ @]
    /\ res' = NoRes
    /\ ndefs' = ndefs + 1
    /\ UNCHANGED <<required, modules, nonLexVars>>

\* append as it would be if it moved a member to the end
OrderedSetMoveToEnd(s, x) == Append(SelectSeq(s, LAMBDA y : y # x), x)

\* OrderedSet.append, which keeps a member where it is
OrderedSetAppend(s, x) == IF x \in SeqToSet(s) THEN s ELSE Append(s, x)

\* Lexicon.add_modules
AddModules(m) ==
    /\ modules' = OrderedSetAppend(modules, m)
    /\ res' = [op |-> "add_modules", module |-> m]
    /\ UNCHANGED <<definitions, required, ndefs, nonLexVars>>

\* lexicon[key]
GetItem(key) ==
    /\ res' = [op |-> "getitem", key |-> key, out |-> LexiconGetItem(key)]
    /\ UNCHANGED <<definitions, required, modules, ndefs, nonLexVars>>

\* lexicon.keys()
Keys ==
    /\ res' = [op |-> "keys", out |-> LexiconKeys]
    /\ UNCHANGED <<definitions, required, modules, ndefs, nonLexVars>>

\* lexicon.items()
Items ==
    /\ res' = [op |-> "items", out |-> LexiconItems]
    /\ UNCHANGED <<definitions, required, modules, ndefs, nonLexVars>>

\* no update() call on a single Definition is under way
UpdIdle ==
    /\ subject = NoDefinition
    /\ upd = NoRes
    /\ nupd = 0

\* match = None
NoMatch == [start |-> NoneInt, end |-> NoneInt]

\* tokenize() has not been called
TokIdle ==
    /\ code = <<>>
    /\ start = 0
    /\ end = NoneInt
    /\ found_tokens = <<>>
    /\ def_items = NoRes
    /\ match = NoMatch
    /\ pc = "idle"
    /\ bad = NoRes
    /\ prior = {}
    /\ nlines = 0

\* no line of the file has been read at the file scanner's position
NoLine == [depth |-> NoneInt, type |-> NoneVal, value |-> NoneVal]

\* the parser has no file to read
ScopeIdle ==
    /\ children = <<>>
    /\ file_line = NoLine
    /\ file_position = 0
    /\ file_done = FALSE
    /\ sub_lines = <<>>
    /\ sub_position = 0
    /\ scanner = NoneVal
    /\ outcome = NoRes

\* no DefinitionAlias has been made
AliasIdle ==
    /\ alias_target = <<>>
    /\ alias_res = NoRes
    /\ alias_own = <<>>

\* no Scanner has been made
ScanIdle ==
    /\ lines = <<>>
    /\ position = 0
    /\ returned = <<>>
    /\ gen = "none"
    /\ yielded = <<>>
    /\ scan_res = NoRes
    /\ nnext = 0

\* Interpreter.__init__, with a webdriver that has loaded no page
InterpIdle ==
    interpreter = [errorfound |-> FALSE, interactivity_enabled |-> TRUE, current_url |-> NoneVal]

\* the Modules whose Definitions are followed as objects
ObjectModules == 1..2

\* nothing is stored under a key of Module.definitions
Absent == [kind |-> "absent"]

\* no Definition has been made: no inner dict exists
NoObjects ==
    [heap |-> <<>>,
     kw |-> [m \in ObjectModules |-> Absent],
     tt |-> [m \in ObjectModules |-> Absent],
     passed |-> <<>>,
     composite |-> Absent,
     op |-> "none",
     nops |-> 0]

ObjIdle == objects = NoObjects

\* no Lexicon is in use
LexIdle ==
    /\ definitions = EmptyMap
    /\ required = EmptyMap
    /\ modules = <<>>
    /\ ndefs = 0
    /\ res = NoRes

Init ==
    /\ definitions = [m \in ModuleNames |-> EmptyDefinitions]
    /\ required = [m \in ModuleNames |-> <<>>]
    /\ modules = <<>>
    /\ ndefs = 0
    /\ res = NoRes
    /\ UpdIdle
    /\ TokIdle
    /\ ScopeIdle
    /\ AliasIdle
    /\ ScanIdle
    /\ InterpIdle
    /\ ObjIdle

Next ==
    \/ \E m \in ModuleNames, d \in DefinitionPool : AddDefinition(m, d)
    \/ AddDefinition("A", VerbDefault)
    \/ \E m \in ModuleNames, k \in Keywords : RemoveKeyword(m, k)
    \/ RemoveTokenType("B", "Verb")
    \/ \E m \in ModuleNames : AddModules(m)
    \/ \E k \in Keywords : GetItem(k)
    \/ Keys
    \/ Items

Spec == Init /\ [][Next]_vars

-----------------------------------------------------------------------------
(* Properties of the Lexicon *)

\* the Definition Module m stores under the keyword
Stored(m, key) == definitions[m].kw[key].def

\* Module m defines the keyword: a real Definition is stored under it
Defines(m, key) == key \in DOMAIN definitions[m].kw /\ ~definitions[m].kw[key].isNone

\* Module m removes the keyword: a falsy entry is stored under it
Removes(m, key) == key \in DOMAIN definitions[m].kw /\ definitions[m].kw[key].isNone

\* Module m stores nothing under a token type (no default, no removal)
NoDefaults(m) == DOMAIN definitions[m].tt = {}

Looked(key) == res.op = "getitem" /\ res.key = key

\* hook h of consumer c is set (to a callable) in the consumers map
SetsHook(consumers, c, h) ==
    /\ c \in DOMAIN consumers
    /\ ~consumers[c].isNone
    /\ h \in DOMAIN consumers[c].hooks
    /\ consumers[c].hooks[h] # NoneVal

\* the consumers map mentions hook h of consumer c (sets it, or deletes it or
\* its bucket)
MentionsHook(consumers, c, h) ==
    c \in DOMAIN consumers /\ (consumers[c].isNone \/ h \in DOMAIN consumers[c].hooks)

HookNames == {"preconsume", "postconsume", "posttokenize"}

\* in composite r every hook w sets has w's value
HooksWin(r, w) ==
    \A c \in DOMAIN w.consumers : \A h \in HookNames :
        SetsHook(w.consumers, c, h) =>
            SetsHook(r.consumers, c, h) /\ r.consumers[c].hooks[h] = w.consumers[c].hooks[h]

\* in composite r every hook l sets and w does not mention has l's value
HooksKept(r, l, w) ==
    \A c \in DOMAIN l.consumers : \A h \in HookNames :
        (SetsHook(l.consumers, c, h) /\ ~MentionsHook(w.consumers, c, h)) =>
            SetsHook(r.consumers, c, h) /\ r.consumers[c].hooks[h] = l.consumers[c].hooks[h]

\* in the flat map rm every key wm sets has wm's value, every key only lm sets
\* has lm's
FlatWins(rm, wm) == \A k \in DOMAIN wm : k \in DOMAIN rm /\ rm[k] = wm[k]
FlatKept(rm, lm, wm) == \A k \in DOMAIN lm \ DOMAIN wm : k \in DOMAIN rm /\ rm[k] = lm[k]

\* Lexicon [X, Y], both defining the looked up keyword with related token
\* types and no token type entries
ShadowCase(X, Y) ==
    /\ res.op = "getitem"
    /\ modules = <<X, Y>>
    /\ Defines(X, res.key) /\ Defines(Y, res.key)
    /\ NoDefaults(X) /\ NoDefaults(Y)
    /\ \/ IsSubclass(Stored(X, res.key).token_type, Stored(Y, res.key).token_type)
       \/ IsSubclass(Stored(Y, res.key).token_type, Stored(X, res.key).token_type)

\* the composite r respects "w's fields win, l's other fields stay"
Shadows(r, l, w) ==
    /\ ~PatternFalsy(w.pattern) => r.pattern = w.pattern
    /\ (PatternFalsy(w.pattern) /\ ~PatternFalsy(l.pattern)) => r.pattern = l.pattern
    /\ HooksWin(r, w)
    /\ HooksKept(r, l, w)
    /\ FlatWins(r.interpretations, w.interpretations)
    /\ FlatKept(r.interpretations, l.interpretations, w.interpretations)
    /\ FlatWins(r.outputters, w.outputters)
    /\ FlatKept(r.outputters, l.outputters, w.outputters)

\* C1: with Modules X then Y active, both defining the keyword, lexicon[keyword]
\* is a composite in which every field Y sets (pattern, consumer hooks,
\* interpretations, outputters) has Y's value and every field only X sets has
\* X's; as X and Y range over all pairs, the reversed order is covered too.
C1_Shadowing ==
    \A X, Y \in ModuleNames : ShadowCase(X, Y) =>
        /\ IsOk(res.out)
        /\ Shadows(res.out.val, Stored(X, res.key), Stored(Y, res.key))

\* Lexicon [X, Y, Z]: X defines the looked up keyword, Y removes it, Z defines
\* it again
ReAddCase(X, Y, Z) ==
    /\ res.op = "getitem"
    /\ modules = <<X, Y, Z>>
    /\ Defines(X, res.key) /\ Removes(Y, res.key) /\ Defines(Z, res.key)
    /\ NoDefaults(X) /\ NoDefaults(Y) /\ NoDefaults(Z)

\* every hook, interpretation and outputter of composite r is one d sets
OnlyFrom(r, d) ==
    /\ \A c \in DOMAIN r.consumers : \A h \in HookNames :
        SetsHook(r.consumers, c, h) =>
            SetsHook(d.consumers, c, h) /\ d.consumers[c].hooks[h] = r.consumers[c].hooks[h]
    /\ \A c \in DOMAIN r.interpretations :
        c \in DOMAIN d.interpretations /\ d.interpretations[c] = r.interpretations[c]
    /\ \A o \in DOMAIN r.outputters :
        o \in DOMAIN d.outputters /\ d.outputters[o] = r.outputters[o]

\* C2: if X defines a keyword, Y (activated after X) removes it and Z (activated
\* after Y) defines it again, lexicon[keyword] succeeds and holds only what Z
\* contributes, nothing of X.
C2_RemovalThenReAdd ==
    \A X, Y, Z \in ModuleNames : ReAddCase(X, Y, Z) =>
        /\ IsOk(res.out)
        /\ OnlyFrom(res.out.val, Stored(Z, res.key))

\* C2 for token types update() accepts together: the same statement where the
\* token types of X's and Z's Definitions are related
C2_RelatedReAdd ==
    \A X, Y, Z \in ModuleNames :
        (/\ ReAddCase(X, Y, Z)
         /\ \/ IsSubclass(Stored(X, res.key).token_type, Stored(Z, res.key).token_type)
            \/ IsSubclass(Stored(Z, res.key).token_type, Stored(X, res.key).token_type))
        => /\ IsOk(res.out)
           /\ OnlyFrom(res.out.val, Stored(Z, res.key))

\* the most recently activated Module that mentions the keyword removes it
NearestIsRemoval(key) ==
    LET avail == AvailableModules
        mentions == {i \in 1..Len(avail) : key \in DOMAIN definitions[avail[i]].kw}
    IN mentions # {} /\ Removes(avail[MaxOf(mentions)], key)

C10_UnmentionedIsKeyError ==
    \A key \in Keywords :
        (/\ Looked(key) /\ Len(modules) > 0
         /\ \A i \in 1..Len(AvailableModules) :
                key \notin DOMAIN definitions[AvailableModules[i]].kw)
        => res.out.kind = "KeyError"

\* C12: in a Lexicon with at least one active Module, keys() succeeds and holds
\* a keyword exactly if lexicon[keyword] resolves; items() succeeds and pairs
\* each of these keywords with lexicon[keyword].
C12_Enumeration ==
    Len(modules) > 0 =>
        /\ res.op = "keys" =>
            /\ IsOk(res.out)
            /\ \A k \in Keywords : k \in res.out.val <=> IsOk(LexiconGetItem(k))
        /\ res.op = "items" =>
            /\ IsOk(res.out)
            /\ \A k \in Keywords :
                    IF IsOk(LexiconGetItem(k))
                    THEN <<k, LexiconGetItem(k).val>> \in res.out.val
                    ELSE \A it \in res.out.val : it[1] # k
            /\ \A it \in res.out.val : it[1] \in Keywords

\* keys() never holds a keyword whose entry in the Module that mentions it
\* last is a removal, and holds no token type
C12_KeysAreKeywords ==
    (res.op = "keys" /\ IsOk(res.out)) =>
        /\ res.out.val \subseteq Keywords
        /\ \A k \in res.out.val : ~NearestIsRemoval(k)

-----------------------------------------------------------------------------
(* update() on a single Definition *)

\* a Definition whose only content is the cue removing one hook
click_remove_postconsume ==
    FullDefinition(click, "Verb", NoneSeq,
                   "Command" :> Bucket("postconsume" :> NoneVal),
                   EmptyMap, EmptyMap)

\* a Definition whose bucket for Command is an empty dict: falsy, but not None
click_empty_command_consumers ==
    FullDefinition(click, "Verb", NoneSeq,
                   "Command" :> Bucket(EmptyMap),
                   EmptyMap, EmptyMap)

\* a Definition of another keyword
clack ==
    FullDefinition(<<"c", "l", "a", "c", "k">>, "Verb", NoneSeq,
                   "Command" :> Bucket("preconsume" :> "f7"),
                   EmptyMap,
                   "raw" :> "f7")

\* the Definitions passed to update() as other
UpdatePool ==
    DefinitionPool \cup {click_remove_postconsume, click_empty_command_consumers, clack}

\* subject.update(other, merge)
DoUpdate(other, merge) ==
    /\ nupd < MaxUpdates
    /\ LET out == Update(subject, other, merge)
       IN /\ upd' = [op |-> "update", before |-> subject, other |-> other,
                     merge |-> merge, out |-> out.kind]
          /\ subject' = IF IsOk(out) THEN out.val ELSE subject
    /\ nupd' = nupd + 1
    /\ UNCHANGED nonUpdVars

InitUpdate ==
    /\ subject \in DefinitionPool
    /\ upd = NoRes
    /\ nupd = 0
    /\ LexIdle
    /\ TokIdle
    /\ ScopeIdle
    /\ AliasIdle
    /\ ScanIdle
    /\ InterpIdle
    /\ ObjIdle

NextUpdate == \E other \in UpdatePool, merge \in BOOLEAN : DoUpdate(other, merge)

SpecUpdate == InitUpdate /\ [][NextUpdate]_vars

\* update(other, merge=True) went through
Merged == upd.op = "update" /\ upd.merge /\ upd.out = "ok"

\* other carries the cue removing hook h of consumer c: a falsy value
CuesRemoval(consumers, c, h) ==
    /\ c \in DOMAIN consumers
    /\ ~consumers[c].isNone
    /\ h \in DOMAIN consumers[c].hooks
    /\ consumers[c].hooks[h] = NoneVal

\* C9: update(other, merge=True), where other sets a hook that self's bucket
\* for a consumer holds to a falsy value, removes that hook from the bucket;
\* the hooks of the bucket other does not mention and the buckets other does
\* not mention are as they were.
C9_MergeDeletion ==
    Merged =>
        \A c \in DOMAIN upd.before.consumers :
            LET mine == upd.before.consumers[c]
                theirs == upd.other.consumers
            IN ~mine.isNone =>
                /\ c \notin DOMAIN theirs =>
                        c \in DOMAIN subject.consumers /\ subject.consumers[c] = mine
                /\ (c \in DOMAIN theirs /\ ~theirs[c].isNone) =>
                        /\ c \in DOMAIN subject.consumers
                        /\ ~subject.consumers[c].isNone
                        /\ \A h \in DOMAIN mine.hooks :
                            /\ CuesRemoval(theirs, c, h) =>
                                    h \notin DOMAIN subject.consumers[c].hooks
                            /\ h \notin DOMAIN theirs[c].hooks =>
                                    /\ h \in DOMAIN subject.consumers[c].hooks
                                    /\ subject.consumers[c].hooks[h] = mine.hooks[h]

\* a merge removed postconsume from a Command bucket that also held preconsume,
\* next to a Verb bucket other did not mention
C9_Witness ==
    /\ Merged
    /\ upd.other = click_remove_postconsume
    /\ "Command" \in DOMAIN upd.before.consumers
    /\ ~upd.before.consumers["Command"].isNone
    /\ DOMAIN upd.before.consumers["Command"].hooks = {"preconsume", "postconsume"}
    /\ upd.before.consumers["Command"].hooks["postconsume"] # NoneVal
    /\ "Verb" \in DOMAIN upd.before.consumers
    /\ DOMAIN subject.consumers["Command"].hooks = {"preconsume"}

\* neither token type is the other's ancestor, nor are they the same
Unrelated(a, b) == ~IsSubclass(a, b) /\ ~IsSubclass(b, a)

\* C11: update(other) fails with ValueError whenever the names of self and
\* other differ or their token types are unrelated, and self then has the
\* pattern, consumers, interpretations and outputters it had before the call.
C11_MergePrecondition ==
    (/\ upd.op = "update"
     /\ \/ upd.before.name # upd.other.name
        \/ Unrelated(upd.before.token_type, upd.other.token_type))
    => /\ upd.out = "ValueError"
       /\ subject.pattern = upd.before.pattern
       /\ subject.consumers = upd.before.consumers
       /\ subject.interpretations = upd.before.interpretations
       /\ subject.outputters = upd.before.outputters

\* a Definition that earlier updates changed has refused an update by a
\* Definition of another name and of a related token type
C11_Witness ==
    /\ upd.op = "update"
    /\ nupd >= 2
    /\ upd.before.name # upd.other.name
    /\ ~Unrelated(upd.before.token_type, upd.other.token_type)
    /\ upd.out = "ValueError"
    /\ subject = upd.before
    /\ subject \notin DefinitionPool

-----------------------------------------------------------------------------
(* tokenizer.py: tokenize *)

\* str.lower on the letters the lines are written with
Lower(c) ==
    CASE c = "W" -> "w"
      [] OTHER -> c

\* the number of characters of the greatest run of blanks of text at 0-based pos
RECURSIVE Blanks(_, _)
Blanks(text, pos) ==
    IF pos < Len(text) /\ IsSpace(text[pos + 1]) THEN 1 + Blanks(text, pos + 1) ELSE 0

MaxIn(S) == CHOOSE x \in S : \A y \in S : y <= x

\* re.compile(pattern, re.IGNORECASE).match(text, pos), for the atoms i.. of the
\* pattern: the 0-based end of the match, or None
RECURSIVE MatchFrom(_, _, _, _)
MatchFrom(pattern, i, text, pos) ==
    IF i > Len(pattern) THEN pos
    ELSE IF pattern[i] \in {WS, WS0}
    THEN LET least == IF pattern[i] = WS THEN 1 ELSE 0
             ends == {MatchFrom(pattern, i + 1, text, pos + k) : k \in least..Blanks(text, pos)}
                        \ {NoneInt}
             longest == MaxIn({k \in least..Blanks(text, pos) :
                                MatchFrom(pattern, i + 1, text, pos + k) # NoneInt})
         IN IF ends = {} THEN NoneInt ELSE MatchFrom(pattern, i + 1, text, pos + longest)
    ELSE IF pos < Len(text) /\ Lower(text[pos + 1]) = Lower(pattern[i])
    THEN MatchFrom(pattern, i + 1, text, pos + 1)
    ELSE NoneInt

\* len(pattern): the length of the regular expression's text
RECURSIVE PatternLen(_)
PatternLen(pattern) ==
    IF pattern = <<>> THEN 0
    ELSE (IF Head(pattern) \in {WS, WS0} THEN 6 ELSE 1) + PatternLen(Tail(pattern))

\* the for loop as it would be over the definitions sorted by descending
\* len(pattern)
FirstMatchesLongest(items, text, pos) ==
    LET matching == {it \in items : MatchFrom(it[2].pattern, 1, text, pos) # NoneInt}
    IN {it \in matching :
            \A o \in matching : PatternLen(it[2].pattern) >= PatternLen(o[2].pattern)}

\* the definitions the for loop can stop at: those whose pattern matches at
\* start and that no matching definition precedes in the order sorted by
\* len(pattern) (definitions of equal length are in the order of a set)
FirstMatches(items, text, pos) ==
    LET matching == {it \in items : MatchFrom(it[2].pattern, 1, text, pos) # NoneInt}
    IN {it \in matching :
            \A o \in matching : PatternLen(it[2].pattern) <= PatternLen(o[2].pattern)}

\* str(CommandCodeProvider(command, start, end)): the command's code, whatever
\* start and end are
CommandCodeProviderStr(command_code, s, e) == command_code

\* the posttokenize hook as it would be if it got a copy of the Lexicon: the
\* caller's Lexicon stays as it was
PostTokenizeOnCopy(hook, lexicon_modules) == lexicon_modules

\* calling a posttokenize hook with the Lexicon; add_modifying_module is
\* lambda token, lexicon: lexicon.add_modules(modifying_module)
PostTokenize(hook, lexicon_modules) ==
    IF hook = "add_modifying_module"
    THEN OrderedSetAppend(lexicon_modules, "modifying_module")
    ELSE lexicon_modules

\* the exception the call of a posttokenize hook with token= and lexicon=
\* raises, or None.  Of the hooks of basic.py, that of the ScopeChange default
\* is lambda token, parent, interpreter: ..., which takes no lexicon, and that
\* of test calls lexicon.add_module, which Lexicon does not have
HookRaises(hook) ==
    IF hook = NoneVal THEN "TypeError"
    ELSE IF hook = "add_disable_scope_change" THEN "TypeError"
    ELSE IF hook = "add_module_loading" THEN "AttributeError"
    ELSE NoneVal

fred == <<"f", "r", "e", "d">>
wilma == <<"w", "i", "l", "m", "a">>
barney == <<"b", "a", "r", "n", "e", "y">>
space == <<"s", "p", "a", "c", "e">>

\* base_module and modifying_module of the tokenize doctest, and a Module
\* without definitions
TokenizerDefinitions ==
    [m \in {"base_module", "modifying_module", "other_module"} |->
        IF m = "base_module"
        THEN [kw |-> fred :> DefEntry(FullDefinition(fred, "Verb", NoneSeq,
                                "Command" :> Bucket("posttokenize" :> "add_modifying_module"),
                                EmptyMap, EmptyMap))
                     @@ wilma :> DefEntry(FullDefinition(wilma, "Verb", NoneSeq,
                                EmptyMap, EmptyMap, EmptyMap))
                     @@ space :> DefEntry(FullDefinition(space, "Token", <<" ">>,
                                EmptyMap, EmptyMap, EmptyMap)),
              tt |-> EmptyMap]
        ELSE IF m = "modifying_module"
        THEN [kw |-> barney :> DefEntry(FullDefinition(barney, "Verb", NoneSeq,
                                EmptyMap, EmptyMap, EmptyMap))
                     @@ wilma :> NoneEntry,
              tt |-> EmptyMap]
        ELSE EmptyDefinitions]

\* the words lines are made of: keywords, one in capitals, text no keyword
\* matches, such text running into a keyword, and two keywords run together
Words ==
    { fred, <<"W", "i", "l", "m", "a">>, barney, <<"q", "x">>,
      <<"q", "x", "f", "r", "e", "d">>, fred \o barney }

\* " ".join(words)
RECURSIVE JoinWords(_)
JoinWords(ws) ==
    IF Len(ws) = 0 THEN <<>>
    ELSE IF Len(ws) = 1 THEN ws[1]
    ELSE ws[1] \o <<" ">> \o JoinWords(Tail(ws))

Lines == {JoinWords(ws) : ws \in UNION {[1..n -> Words] : n \in 1..MaxWords}}

\* the keywords of a list of tokens
KeywordsOf(toks) == {toks[i].keyword : i \in 1..Len(toks)}

\* tokenize(command, lexicon) is called, on the Lexicon the earlier calls used
TokenizeCall(line) ==
    /\ pc \in {"idle", "returned", "raised"}
    /\ nlines < MaxLines
    /\ code' = line
    /\ start' = 0
    /\ end' = NoneInt
    /\ found_tokens' = <<>>
    /\ def_items' = NoRes
    /\ match' = NoMatch
    /\ pc' = IF Len(line) > 0 THEN "while" ELSE "after"
    /\ bad' = NoRes
    /\ prior' = prior \cup KeywordsOf(found_tokens)
    /\ nlines' = nlines + 1
    /\ UNCHANGED <<modules, nonTokVars>>

\* where the call goes after a pass of the while loop that did not break
WhileTest(new_start) == IF new_start < Len(code) THEN "while" ELSE "after"

\* tokenize: an exception leaves the call
TokenizeRaises(kind) ==
    /\ pc' = "raised"
    /\ bad' = [kind |-> kind]
    /\ UNCHANGED <<code, start, end, found_tokens, match, prior, nlines, modules>>

\* tokenize: the pass found no match, the text at start is not recognized
TokenizeNoMatch ==
    /\ end' = IF end = NoneInt THEN start ELSE end
    /\ start' = start + 1
    /\ match' = NoMatch
    /\ pc' = WhileTest(start + 1)
    /\ UNCHANGED <<code, found_tokens, bad, prior, nlines, modules>>

\* the pass stopped at an item matching at start, as it would be without the
\* test `if end is None`: the token is made and its hook called also after
\* unrecognized text
TokenizeMatchAfterGarbage(item) ==
    LET def == item[2]
        m == [start |-> start, end |-> MatchFrom(def.pattern, 1, code, start)]
        hooked == /\ "Command" \in DOMAIN def.consumers
                  /\ "posttokenize" \in DOMAIN def.consumers["Command"].hooks
        hook == def.consumers["Command"].hooks["posttokenize"]
    IN IF hooked /\ HookRaises(hook) # NoneVal
       THEN TokenizeRaises(HookRaises(hook))
       ELSE /\ modules' = IF hooked THEN PostTokenize(hook, modules) ELSE modules
            /\ found_tokens' = Append(found_tokens,
                    [type |-> def.token_type, keyword |-> def.name,
                     start |-> m.start, end |-> m.end])
            /\ start' = m.end
            /\ match' = IF end # NoneInt THEN m ELSE NoMatch
            /\ pc' = IF end # NoneInt THEN "after" ELSE WhileTest(m.end)
            /\ UNCHANGED <<code, end, bad, prior, nlines>>

\* tokenize: the pass stopped at an item matching at start
TokenizeMatch(item) ==
    LET def == item[2]
        m == [start |-> start, end |-> MatchFrom(def.pattern, 1, code, start)]
        hooked == /\ "Command" \in DOMAIN def.consumers
                  /\ "posttokenize" \in DOMAIN def.consumers["Command"].hooks
        hook == def.consumers["Command"].hooks["posttokenize"]
    IN IF end # NoneInt
       THEN \* recognition resumes after unrecognized text: leave the loop
            /\ match' = m
            /\ pc' = "after"
            /\ UNCHANGED <<code, start, end, found_tokens, bad, prior, nlines, modules>>
       ELSE IF hooked /\ HookRaises(hook) # NoneVal
       THEN TokenizeRaises(HookRaises(hook))
       ELSE /\ modules' = IF hooked THEN PostTokenize(hook, modules) ELSE modules
            /\ found_tokens' = Append(found_tokens,
                    [type |-> def.token_type, keyword |-> def.name,
                     start |-> m.start, end |-> m.end])
            /\ start' = m.end
            /\ match' = NoMatch
            /\ pc' = WhileTest(m.end)
            /\ UNCHANGED <<code, end, bad, prior, nlines>>

\* tokenize: one pass of the while loop
TokenizeIteration ==
    /\ pc = "while"
    /\ def_items' = LexiconItems
    /\ IF ~IsOk(def_items') THEN TokenizeRaises(def_items'.kind)
       ELSE IF FirstMatches(def_items'.val, code, start) = {} THEN TokenizeNoMatch
       ELSE \E item \in FirstMatches(def_items'.val, code, start) : TokenizeMatch(item)
    /\ UNCHANGED nonTokVars

\* tokenize: after the while loop, raise BadToken or return found_tokens
TokenizeEnd ==
    /\ pc = "after"
    /\ IF end # NoneInt
       THEN /\ pc' = "raised"
            /\ bad' = [kind |-> "BadToken",
                       start |-> end,
                       end |-> IF match # NoMatch THEN match.start ELSE NoneInt,
                       text |-> CommandCodeProviderStr(code, end,
                                    IF match # NoMatch THEN match.start ELSE NoneInt)]
       ELSE /\ pc' = "returned"
            /\ bad' = NoRes
    /\ UNCHANGED <<code, start, end, found_tokens, def_items, match, prior, nlines, modules, nonTokVars>>

\* lexicon.add_modules(other_module), called between two tokenize calls
AddOtherModule ==
    /\ pc \in {"idle", "returned", "raised"}
    /\ modules' = OrderedSetAppend(modules, "other_module")
    /\ UNCHANGED <<tokVars, nonTokVars>>

InitTokenize ==
    /\ definitions = TokenizerDefinitions
    /\ required = [m \in DOMAIN TokenizerDefinitions |-> <<>>]
    /\ modules = <<"base_module">>
    /\ ndefs = 0
    /\ res = NoRes
    /\ UpdIdle
    /\ TokIdle
    /\ ScopeIdle
    /\ AliasIdle
    /\ ScanIdle
    /\ InterpIdle
    /\ ObjIdle

NextTokenize ==
    \/ \E line \in Lines : TokenizeCall(line)
    \/ TokenizeIteration
    \/ TokenizeEnd
    \/ AddOtherModule

SpecTokenize == InitTokenize /\ [][NextTokenize]_vars

-----------------------------------------------------------------------------
(* Properties of tokenize *)

\* the text of the keyword stands in the line at 0-based position p
HasAt(keyword, p) == MatchFrom(keyword, 1, code, p) # NoneInt

\* the hook of fred has run before the i-th token of this call was looked up:
\* in an earlier call on this Lexicon or for an earlier token of this one
Triggered(i) ==
    \/ fred \in prior
    \/ \E j \in 1..(i - 1) : found_tokens[j].keyword = fred

BadTokenRaised == pc = "raised" /\ bad.kind = "BadToken"

SpanEnd == IF bad.end = NoneInt THEN Len(code) ELSE bad.end

\* the tokens made cover the line from its start to 0-based position p
TiledTo(p) ==
    /\ (IF found_tokens = <<>> THEN 0 ELSE found_tokens[Len(found_tokens)].end) = p
    /\ \A i \in 1..Len(found_tokens) :
        found_tokens[i].start = (IF i = 1 THEN 0 ELSE found_tokens[i - 1].end)

\* a pattern of the Lexicon matches at 0-based position p of the line
Recognized(p) ==
    IsOk(LexiconItems) /\ \E it \in LexiconItems.val : MatchFrom(it[2].pattern, 1, code, p) # NoneInt

\* the span of the BadToken is the unrecognized run: valid text up to it is
\* tokens, nothing is recognized inside it, and recognition resumes at its end
\* unless that is the end of the line
C4_SpanFields ==
    BadTokenRaised =>
        /\ TiledTo(bad.start)
        /\ bad.start < SpanEnd
        /\ \A p \in bad.start..(SpanEnd - 1) : ~Recognized(p)
        /\ bad.end # NoneInt => Recognized(bad.end)

\* C4: tokenize fails with an error whose span starts at the first character
\* of the unrecognized run and ends where recognition resumes (or at the end
\* of the line), and the text the error reports is exactly that run.
C4_ErrorSpan ==
    BadTokenRaised =>
        /\ TiledTo(bad.start)
        /\ bad.start < SpanEnd
        /\ \A p \in bad.start..(SpanEnd - 1) : ~Recognized(p)
        /\ bad.end # NoneInt => Recognized(bad.end)
        /\ bad.text = SubSeq(code, bad.start + 1, SpanEnd)

-----------------------------------------------------------------------------
(* The parser, its scanners and the scope stack *)

\* InteractiveParser.subcommand_scanner_name
SubcommandScanner == "<subcommand>"

\* the name of the file scanner the parser reads
FileScanner == "script.vision"

\* the name of a file scanner the parser read before this one
EarlierScanner == "earlier.vision"

\* a command the parser adopted
Command(scn, origin, lineno, verb_type, verb_value, change) ==
    [scanner |-> scn, origin_scanner |-> origin, lineno |-> lineno,
     type |-> verb_type, value |-> verb_value, scopechange |-> change]

\* how a call of the parser's next() went: what it did, the line the scanner
\* read, the exception scanline raised and the exception that left the scanner
Outcome(op, read, scanline, raised) ==
    [op |-> op, line |-> read, scanline |-> scanline, raised |-> raised]

\* the scopechange the action of a verb gives its command: test_action sets 1
ScopeChange(verb_type) == IF verb_type \in {"test", "require"} THEN 1 ELSE 0

\* isinstance(com.verb, visionparser.InterpreterVerb)
IsInterpreterVerb(verb_type) == verb_type \in {"end test", "end require"}

\* the verb of the line "End <scope_type> ..."
EndVerb(scope_type) == IF scope_type = "test" THEN "end test" ELSE "end require"

\* matching_type the action of an end verb hands to end_scope_action
MatchingType(verb_type) == IF verb_type = "end test" THEN "test" ELSE "require"

\* command.scopes: the commands that opened a scope still open, oldest first;
\* a command of positive scopechange opens one, one of scopechange -k closes
\* the k most recently opened
RECURSIVE CommandScopes(_)
CommandScopes(cs) ==
    IF cs = <<>> THEN <<>>
    ELSE LET before == CommandScopes(SubSeq(cs, 1, Len(cs) - 1))
             c == cs[Len(cs)]
         IN IF c.scopechange > 0 THEN Append(before, c)
            ELSE IF c.scopechange < 0
                 THEN SubSeq(before, 1, Len(before) + c.scopechange)
                 ELSE before

\* command.scope_iter: the commands before this one, most recent first
ScopeIter(cs) == Reverse(cs)

\* the scopes the commands of the file scanner opened
OwnScopes(scopes) == SelectSeq(scopes, LAMBDA scope : scope.scanner = FileScanner)

\* the loop of end_scope_action over scope_iter from its i-th command on
RECURSIVE EndScopeLoop(_, _, _, _, _, _)
EndScopeLoop(scope_iter, i, change, min_change, matching_type, verb_value) ==
    IF i > Len(scope_iter) THEN [matched |-> FALSE, change |-> change, scope |-> NoneVal]
    ELSE LET scope == scope_iter[i]
             c == change - scope.scopechange
         IN IF /\ c < min_change
               /\ scope.type = matching_type
               /\ (verb_value = "" \/ scope.value = verb_value)
            THEN [matched |-> TRUE, change |-> c, scope |-> scope]
            ELSE EndScopeLoop(scope_iter, i + 1, c,
                              IF c < min_change THEN c ELSE min_change,
                              matching_type, verb_value)

\* the loop of end_scope_action if it stopped at the most recent command of the
\* type and label, whether the scope that command opened is still open or not
RECURSIVE EndScopeLoopAnyCommand(_, _, _, _, _)
EndScopeLoopAnyCommand(scope_iter, i, change, matching_type, verb_value) ==
    IF i > Len(scope_iter) THEN [matched |-> FALSE, change |-> change, scope |-> NoneVal]
    ELSE LET scope == scope_iter[i]
             c == change - scope.scopechange
         IN IF /\ scope.type = matching_type
               /\ (verb_value = "" \/ scope.value = verb_value)
            THEN [matched |-> TRUE, change |-> c, scope |-> scope]
            ELSE EndScopeLoopAnyCommand(scope_iter, i + 1, c, matching_type, verb_value)

EndScopeActionAnyCommand(cs, matching_type, verb_value) ==
    EndScopeLoopAnyCommand(ScopeIter(cs), 1, 0, matching_type, verb_value)

\* end_scope_action: whether a scope matched, the change the loop ended with
\* and the scope it stopped at
EndScopeAction(cs, matching_type, verb_value) ==
    EndScopeLoop(ScopeIter(cs), 1, 0, 0, matching_type, verb_value)

\* the origin_scanner of a command of the subcommand scanner: that of the
\* latest command whose verb is not an InterpreterVerb
RECURSIVE OriginScanner(_)
OriginScanner(cs) ==
    IF cs = <<>> THEN SubcommandScanner
    ELSE IF ~IsInterpreterVerb(cs[Len(cs)].type) THEN cs[Len(cs)].origin_scanner
    ELSE OriginScanner(SubSeq(cs, 1, Len(cs) - 1))

\* the scope every dedent would end if it ended the most recently opened one
ScopeToEndInnermost(scopes, own, scope_level) == scopes[Len(scopes)]

\* the scope a dedented line ends: scopes[scope_level + (len(scopes) - len(own))]
ScopeToEnd(scopes, own, scope_level) ==
    scopes[scope_level + (Len(scopes) - Len(own)) + 1]

\* the line "End <type> '<label>'" put into the subcommand scanner
EndLine(scope) == [depth |-> 0, type |-> EndVerb(scope.type), value |-> scope.value]

\* the finally clause of next() if it advanced whatever was raised
AdvancesAlways(exception) == TRUE

\* the finally clause of VisionScanner.next: advance unless StopIteration
Advances(exception) == exception # "StopIteration"

\* the lines a file may hold: a scope-opening Test, or a Click, at some depth
FileLines ==
    {[depth |-> d, type |-> v[1], value |-> v[2]] :
        d \in 0..MaxDepth, v \in {<<"test", "a">>, <<"test", "b">>, <<"click", "">>}}

\* InteractiveParser.next with a file scanner current that has a line at its
\* position: the line is tokenized and scanline handles its indentation
NextFromFile(new_line) ==
    /\ scanner = FileScanner
    /\ ~file_done
    /\ file_position < MaxFileLines
    /\ LET read == IF file_line # NoLine THEN file_line ELSE new_line
           scopes == CommandScopes(children)
           own == OwnScopes(scopes)
           scope_level == read.depth
       IN IF scope_level > Len(scopes)
          THEN \* GarbageInputError without a command: e.command.trace fails
               /\ outcome' = Outcome("error", read, "GarbageInputError", "AttributeError")
               /\ file_position' = IF Advances("GarbageInputError")
                                   THEN file_position + 1 ELSE file_position
               /\ file_line' = IF Advances("GarbageInputError") THEN NoLine ELSE read
               /\ UNCHANGED <<children, sub_lines, scanner>>
          ELSE IF scope_level < Len(own) /\ scope_level < Len(scopes)
          THEN \* dedent: an End line goes to the subcommand scanner
               /\ sub_lines' = Append(sub_lines, EndLine(ScopeToEnd(scopes, own, scope_level)))
               /\ scanner' = SubcommandScanner
               /\ outcome' = Outcome("dedent", read, "StopIteration", "StopIteration")
               /\ file_position' = IF Advances("StopIteration")
                                   THEN file_position + 1 ELSE file_position
               /\ file_line' = IF Advances("StopIteration") THEN NoLine ELSE read
               /\ UNCHANGED children
          ELSE /\ children' = Append(children,
                        Command(FileScanner, FileScanner, file_position + 1,
                                read.type, read.value, ScopeChange(read.type)))
               /\ outcome' = Outcome("command", read, NoneVal, NoneVal)
               /\ file_position' = IF Advances(NoneVal)
                                   THEN file_position + 1 ELSE file_position
               /\ file_line' = IF Advances(NoneVal) THEN NoLine ELSE read
               /\ UNCHANGED <<sub_lines, scanner>>
    /\ UNCHANGED <<file_done, sub_position, nonScopeVars>>

\* InteractiveParser.next with a file scanner current that is done: the
\* scanner is removed, and no scanner is left that has a line
FileExhausted ==
    /\ scanner = FileScanner
    /\ ~file_done
    /\ file_line = NoLine
    /\ file_done' = TRUE
    /\ scanner' = SubcommandScanner
    /\ outcome' = Outcome("exhausted", NoLine, NoneVal, "StopIteration")
    /\ UNCHANGED <<children, file_line, file_position, sub_lines, sub_position, nonScopeVars>>

\* InteractiveParser.next with the subcommand scanner current that has a line
SubcommandNext ==
    /\ scanner = SubcommandScanner
    /\ sub_position < Len(sub_lines)
    /\ LET read == sub_lines[sub_position + 1]
           ended == EndScopeAction(children, MatchingType(read.type), read.value)
       IN IF ended.matched
          THEN /\ children' = Append(children,
                        Command(SubcommandScanner, OriginScanner(children),
                                sub_position + 1, read.type, read.value, ended.change))
               /\ outcome' = Outcome("command", read, NoneVal, NoneVal)
          ELSE /\ outcome' = Outcome("error", read, NoneVal, "UnmatchedEndScopeError")
               /\ UNCHANGED children
    /\ sub_position' = sub_position + 1
    /\ UNCHANGED <<file_line, file_position, file_done, sub_lines, scanner, nonScopeVars>>

\* InteractiveParser.next with the subcommand scanner current that is done:
\* the parser goes back to the origin scanner of its latest command
SubcommandExhausted ==
    /\ scanner = SubcommandScanner
    /\ sub_position = Len(sub_lines)
    /\ ~file_done
    /\ children # <<>>
    /\ scanner' = children[Len(children)].origin_scanner
    /\ outcome' = Outcome("switch", NoLine, NoneVal, "StopIteration")
    /\ UNCHANGED <<children, file_line, file_position, file_done, sub_lines, sub_position,
                   nonScopeVars>>

\* the parser is about to read a file; an earlier file may have left a scope open
InitScopes ==
    /\ children \in {<<>>, <<Command(EarlierScanner, EarlierScanner, 1, "test", "outer", 1)>>}
    /\ file_line = NoLine
    /\ file_position = 0
    /\ file_done = FALSE
    /\ sub_lines = <<>>
    /\ sub_position = 0
    /\ scanner = FileScanner
    /\ outcome = Outcome("none", NoLine, NoneVal, NoneVal)
    /\ LexIdle
    /\ UpdIdle
    /\ TokIdle
    /\ AliasIdle
    /\ ScanIdle
    /\ InterpIdle
    /\ ObjIdle

NextScopes ==
    \/ \E new_line \in FileLines : NextFromFile(new_line)
    \/ FileExhausted
    \/ SubcommandNext
    \/ SubcommandExhausted

SpecScopes == InitScopes /\ [][NextScopes]_vars

-----------------------------------------------------------------------------
(* Properties of the scope handling *)

\* this step is a call of next() in which the file scanner read a line
FileLineRead == scanner = FileScanner /\ outcome'.op \in {"command", "error", "dedent"}

\* this step is a call of next() in which the file scanner found its line dedented
DedentDetected == scanner = FileScanner /\ outcome'.op = "dedent"

\* this step is a call of next() that made a command of a subcommand line
CloseProcessed == scanner = SubcommandScanner /\ outcome'.op = "command"

\* the line is refused with the error for too many indents, and nothing is
\* made of it: no command, no line for the subcommand scanner
RefusedForIndents ==
    /\ outcome'.op = "error"
    /\ outcome'.scanline = "GarbageInputError"
    /\ children' = children
    /\ sub_lines' = sub_lines

\* C5: a line of the file whose count of leading indentation tokens is greater
\* than the number of open scopes that the commands of this file opened fails
\* with the error for too many indents, and no command is made of it.
C5_OverIndentation ==
    [][(FileLineRead /\ outcome'.line.depth > Len(OwnScopes(CommandScopes(children))))
            => RefusedForIndents]_vars

\* a line of the file with more leading indentation tokens than there are
\* open scopes in all, whichever scanner opened them, is refused this way
C5_DeeperThanAllScopes ==
    [][(FileLineRead /\ outcome'.line.depth > Len(CommandScopes(children)))
            => RefusedForIndents]_vars

FileLinenos(cs) ==
    LET own == SelectSeq(cs, LAMBDA c : c.scanner = FileScanner)
    IN [i \in 1..Len(own) |-> own[i].lineno]

StrictlyIncreasing(s) == \A i \in 1..(Len(s) - 1) : s[i] < s[i + 1]

\* C7: when a dedent is detected the file scanner stays on the dedented line
\* and the End line waits in the subcommand scanner; while a line waits in the
\* subcommand scanner the parser reads that scanner and not the file; the
\* next line the file scanner reads is the dedented line again, and the
\* command made of it comes after the subcommand scanner is drained, with its
\* own line number; no line of the file is made a command twice.
C7_DrainBeforeResume ==
    [][/\ DedentDetected =>
            /\ file_position' = file_position
            /\ file_line' = outcome'.line
            /\ scanner' = SubcommandScanner
            /\ sub_position' < Len(sub_lines')
       /\ sub_position < Len(sub_lines) =>
            /\ scanner = SubcommandScanner
            /\ file_position' = file_position
            /\ file_line' = file_line
            /\ sub_position' = sub_position + 1
            /\ outcome'.line = sub_lines[sub_position + 1]
       /\ (FileLineRead /\ file_line # NoLine) =>
            /\ outcome'.line = file_line
            /\ outcome'.op \in {"command", "dedent"}
            /\ outcome'.op = "command" =>
                /\ sub_position = Len(sub_lines)
                /\ file_position' = file_position + 1
                /\ children' = Append(children,
                        Command(FileScanner, FileScanner, file_position + 1,
                                file_line.type, file_line.value,
                                ScopeChange(file_line.type)))
       /\ StrictlyIncreasing(FileLinenos(children'))]_vars

\* a dedented line has been made a command right after the End command
C7_Witness ==
    /\ outcome.op = "command"
    /\ Len(children) >= 2
    /\ children[Len(children)].scanner = FileScanner
    /\ children[Len(children)].lineno = file_position
    /\ children[Len(children) - 1].scanner = SubcommandScanner
    /\ children[Len(children) - 1].scopechange < 0
    /\ sub_position = Len(sub_lines)

-----------------------------------------------------------------------------
(* DefinitionAlias and its target *)

\* the objects a target may be: 0 is a FullDefinition, i >= 1 the i-th
\* DefinitionAlias made; alias_target[i] is the target of the i-th alias

\* isinstance(v, DefinitionAlias)
IsAlias(v) == v >= 1

\* the loop of _validate_target_cycles standing at v; it does not return when
\* the targets from v on run in a cycle that does not pass through self
RECURSIVE ValidateLoop(_, _, _, _)
ValidateLoop(self, v, targets, steps) ==
    IF ~IsAlias(v) THEN Ok(TRUE)
    ELSE IF targets[v] = self THEN Raise("ValueError")
    ELSE IF steps > Len(targets) THEN Raise("NoReturn")
    ELSE ValidateLoop(self, targets[v], targets, steps + 1)

\* DefinitionAlias._validate_target_cycles(name, value)
ValidateTargetCycles(self, target_value, targets) ==
    ValidateLoop(self, target_value, targets, 1)

\* DefinitionAlias.type: the type of the ultimate target; the recursion has no
\* end on a cycle, and Python stops it with a RuntimeError
RECURSIVE AliasType(_, _, _)
AliasType(v, targets, depth) ==
    IF ~IsAlias(v) THEN Ok("FullDefinition")
    ELSE IF depth > Len(targets) THEN Raise("RuntimeError")
    ELSE AliasType(targets[v], targets, depth + 1)

\* DefinitionAlias(target=...): the attribute is set, then its validator runs
ConstructAlias(target_value) ==
    /\ Len(alias_target) < MaxAliases
    /\ LET self == Len(alias_target) + 1
           targets == Append(alias_target, target_value)
           out == ValidateTargetCycles(self, target_value, targets)
       IN /\ alias_target' = IF IsOk(out) THEN targets ELSE alias_target
          /\ alias_res' = [op |-> "construct", self |-> self, target |-> target_value,
                           out |-> out.kind]
    /\ UNCHANGED <<alias_own, nonAliasVars>>

\* alias.target = value: __setattr__ sets the slot, no validator runs
SetTarget(self, target_value) ==
    /\ alias_target' = [alias_target EXCEPT ![self] = target_value]
    /\ alias_res' = [op |-> "setattr", self |-> self, target |-> target_value, out |-> "ok"]
    /\ UNCHANGED <<alias_own, nonAliasVars>>

\* alias.type
GetType(self) ==
    /\ alias_res' = [op |-> "type", self |-> self, target |-> alias_target[self],
                     out |-> AliasType(self, alias_target, 1).kind]
    /\ UNCHANGED <<alias_target, alias_own, nonAliasVars>>

InitAlias ==
    /\ alias_target = <<>>
    /\ alias_res = NoRes
    /\ alias_own = <<>>
    /\ LexIdle
    /\ UpdIdle
    /\ TokIdle
    /\ ScopeIdle
    /\ ScanIdle
    /\ InterpIdle
    /\ ObjIdle

NextAlias ==
    \/ \E t \in 0..Len(alias_target) : ConstructAlias(t)
    \/ \E a \in 1..Len(alias_target), t \in 0..Len(alias_target) : SetTarget(a, t)
    \/ \E a \in 1..Len(alias_target) : GetType(a)

SpecAlias == InitAlias /\ [][NextAlias]_vars

\* following the target links from the alias reaches an object that is not
\* an alias
Resolves(a) == IsOk(AliasType(a, alias_target, 1))

\* C8: in every reachable state the target links from every DefinitionAlias
\* lead to a Definition that is not an alias; making an alias, or assigning
\* the target of one, so that the links would lead back to an alias on the
\* chain is refused when it is done, not when the alias is used later.
C8_AliasAcyclicity ==
    /\ \A a \in 1..Len(alias_target) : Resolves(a)
    /\ alias_res.op = "type" => alias_res.out = "ok"

\* no DefinitionAlias can be constructed onto a cycle: a new alias is the
\* target of nothing, so its validator never finds itself on the chain
C8_ConstructionNeverRefused ==
    alias_res.op = "construct" => alias_res.out # "ValueError"

-----------------------------------------------------------------------------
(* Properties of the active Modules of a Lexicon *)

\* sequence s is the beginning of sequence t
IsPrefix(s, t) == Len(s) <= Len(t) /\ SubSeq(t, 1, Len(s)) = s

\* C13: in every step of tokenize calls, posttokenize hooks and add_modules
\* calls, the active Modules of the Lexicon before the step are the beginning
\* of those after it: Modules are added at the end, none is removed or moved.
C13_AppendOnly == [][IsPrefix(modules, modules')]_vars

\* the hook of fred and add_modules have each added a Module, and the hook of
\* fred has run again since
C13_Witness ==
    /\ modules = <<"base_module", "modifying_module", "other_module">>
    /\ fred \in prior
    /\ fred \in KeywordsOf(found_tokens)
    /\ pc = "returned"

\* add_modules(M) has just returned with Module M at the end of the active
\* Modules
Appended(M) ==
    /\ res.op = "add_modules"
    /\ res.module = M
    /\ modules[Len(modules)] = M

\* composite r has the value of w for the pattern and for every hook,
\* interpretation and outputter w sets
Wins(r, w) ==
    /\ ~PatternFalsy(w.pattern) => r.pattern = w.pattern
    /\ HooksWin(r, w)
    /\ FlatWins(r.interpretations, w.interpretations)
    /\ FlatWins(r.outputters, w.outputters)

\* C14: after add_modules(M), M is the last of the available Modules, and for
\* every keyword M defines, lexicon[keyword] has the values of M's Definition
\* wherever M sets one, whatever the Modules available before hold; for every
\* keyword M removes, lexicon[keyword] does not resolve.
C14_MostRecentWins ==
    \A M \in ModuleNames : Appended(M) =>
        /\ AvailableModules[Len(AvailableModules)] = M
        /\ \A k \in Keywords : k \in DOMAIN definitions[M].kw =>
            LET mine == ModuleGetItem(definitions[M], k, NoneVal)
                got == LexiconGetItem(k)
            IN IF IsOk(mine) THEN IsOk(got) /\ Wins(got.val, mine.val)
               ELSE ~IsOk(got)

\* after add_modules(M), M is the last of the available Modules and holds the
\* nearest mention of every keyword it mentions: lexicon[keyword] does not
\* resolve if M removes it, and has the token type of M's Definition if it
\* resolves
C14_AppendedIsNearest ==
    \A M \in ModuleNames : Appended(M) =>
        /\ AvailableModules[Len(AvailableModules)] = M
        /\ \A k \in Keywords : k \in DOMAIN definitions[M].kw =>
            LET mine == ModuleGetItem(definitions[M], k, NoneVal)
                got == LexiconGetItem(k)
            IN IF IsOk(mine)
               THEN IsOk(got) => got.val.token_type = mine.val.token_type
               ELSE ~IsOk(got)

-----------------------------------------------------------------------------
(* modules.py: Modules that require other Modules *)

\* the Modules in the order they are constructed: required_modules is given to
\* the constructor, so a Module requires only Modules constructed before it
ConstructionOrder == <<"A", "B", "C">>

ConstructedBefore(r, m) ==
    \E i, j \in 1..Len(ConstructionOrder) :
        i < j /\ ConstructionOrder[i] = r /\ ConstructionOrder[j] = m

\* Module(name=m, required_modules=OrderedSet([..., r])): r is the next member
\* of m's required_modules
Require(m, r) ==
    /\ ConstructedBefore(r, m)
    /\ r \notin SeqToSet(required[m])
    /\ required' = [required EXCEPT ![m] = OrderedSetAppend(@, r)]
    /\ res' = NoRes
    /\ UNCHANGED <<definitions, modules, ndefs, nonLexVars>>

\* module.available_modules
GetModuleAvailable(m) ==
    /\ res' = [op |-> "module.available_modules", module |-> m,
               out |-> ModuleAvailableModules(m)]
    /\ UNCHANGED <<definitions, required, modules, ndefs, nonLexVars>>

\* lexicon.available_modules; reduce() of no Modules raises TypeError
GetAvailable ==
    /\ res' = [op |-> "lexicon.available_modules",
               out |-> IF modules = <<>> THEN Raise("TypeError")
                       ELSE Ok(AvailableModules)]
    /\ UNCHANGED <<definitions, required, modules, ndefs, nonLexVars>>

InitRequire == Init

NextRequire ==
    \/ \E m, r \in ModuleNames : Require(m, r)
    \/ \E m \in ModuleNames : AddModules(m)
    \/ \E m \in ModuleNames : GetModuleAvailable(m)
    \/ GetAvailable

SpecRequire == InitRequire /\ [][NextRequire]_vars

-----------------------------------------------------------------------------
(* Properties of available_modules *)

\* the Modules m needs: those it requires, and those they need
RECURSIVE Needs(_)
Needs(m) ==
    SeqToSet(required[m]) \cup UNION {Needs(r) : r \in SeqToSet(required[m])}

\* x stands before y in the sequence s
Before(s, x, y) ==
    \E i, j \in 1..Len(s) : i < j /\ s[i] = x /\ s[j] = y

NoDuplicates(s) == \A i, j \in 1..Len(s) : s[i] = s[j] => i = j

\* s holds every Module m needs and m itself, each once, each after all the
\* Modules it requires, m last
DependencyFirst(s, m) ==
    /\ NoDuplicates(s)
    /\ SeqToSet(s) = Needs(m) \cup {m}
    /\ s[Len(s)] = m
    /\ \A y \in SeqToSet(s) : \A x \in SeqToSet(required[y]) : Before(s, x, y)

\* C15: module.available_modules holds every Module reachable through
\* required_modules and the Module itself, each exactly once and before every
\* Module that requires it, the Module itself last.
C15_DependencyClosure ==
    res.op = "module.available_modules"
        => DependencyFirst(res.out, res.module)

\* module.available_modules is the Module's own required_modules in declared
\* order followed by the Module itself, without duplicates
C15_DirectRequirements ==
    res.op = "module.available_modules"
        => /\ NoDuplicates(res.out)
           /\ res.out = required[res.module] \o <<res.module>>

-----------------------------------------------------------------------------
(* scanner.py: Scanner *)

\* str.rstrip(): the line without its trailing whitespace
RECURSIVE Rstrip(_)
Rstrip(line) ==
    IF line = <<>> THEN <<>>
    ELSE IF line[Len(line)] = " " THEN Rstrip(SubSeq(line, 1, Len(line) - 1))
    ELSE line

\* `if line.rstrip()`: the line is not all whitespace
NonBlank(line) == Rstrip(line) # <<>>

\* Scanner._validate_position
ValidPosition(value) == 0 <= value /\ value < Len(lines)

\* Scanner.next, the loop: read the line at the position, make a Command if it
\* is not blank, advance(); advance() raises IndexError at the last line, and
\* next() turns that into StopIteration with command None (line = NoneInt)
RECURSIVE ScannerNextLoop(_)
ScannerNextLoop(p) ==
    LET command == NonBlank(lines[p + 1])
    IN IF ValidPosition(p + 1)
       THEN IF command THEN [line |-> p, position |-> p + 1]
            ELSE ScannerNextLoop(p + 1)
       ELSE [line |-> NoneInt, position |-> p]

\* Scanner.__reversed__, from one resumption of the generator to its next
\* yield or its end: read the line at the position, make a Command if it is not
\* blank, rewind(), yield the Command in the finally clause; rewind() raises
\* IndexError at line 0, which ends the generator once it is resumed
RECURSIVE ScannerReversedLoop(_)
ScannerReversedLoop(p) ==
    LET command == NonBlank(lines[p + 1])
    IN IF ValidPosition(p - 1)
       THEN IF command THEN [line |-> p, position |-> p - 1, gen |-> "suspended"]
            ELSE ScannerReversedLoop(p - 1)
       ELSE IF command THEN [line |-> p, position |-> p, gen |-> "raising"]
            ELSE [line |-> NoneInt, position |-> p, gen |-> "done"]

\* texts of a line: plain, with dangling whitespace, all whitespace, empty
LineTexts == {<<"g", "o">>, <<"g", " ">>, <<" ">>, <<>>}

\* lists of lines a Scanner is constructed with; the validator of position
\* refuses an empty list (position 0 is not below len(lines))
LineLists == UNION {[1..n -> LineTexts] : n \in 1..MaxScanLines}

\* next(scanner); a generator made by reversed(scanner) is run to its end
\* before next() is called again
ScannerNext ==
    /\ nnext < MaxNext
    /\ gen \in {"none", "done"}
    /\ LET r == ScannerNextLoop(position)
       IN /\ position' = r.position
          /\ returned' = IF r.line = NoneInt THEN returned
                         ELSE Append(returned, r.line)
          /\ scan_res' = [op |-> "next", line |-> r.line]
    /\ nnext' = nnext + 1
    /\ UNCHANGED <<lines, gen, yielded, nonScanVars>>

\* reversed(scanner): makes the generator; its body has not started
ScannerReversed ==
    /\ gen \in {"none", "done"}
    /\ gen' = "created"
    /\ yielded' = <<>>
    /\ scan_res' = [op |-> "reversed()"]
    /\ UNCHANGED <<lines, position, returned, nnext, nonScanVars>>

\* next() of the generator made by reversed(scanner); line = NoneInt when the
\* generator ends
GeneratorNext ==
    /\ gen \in {"created", "suspended", "raising"}
    /\ LET r == IF gen = "raising"
                THEN [line |-> NoneInt, position |-> position, gen |-> "done"]
                ELSE ScannerReversedLoop(position)
       IN /\ position' = r.position
          /\ gen' = r.gen
          /\ yielded' = IF r.line = NoneInt THEN yielded
                        ELSE Append(yielded, r.line)
          /\ scan_res' = [op |-> "reversed", line |-> r.line]
    /\ UNCHANGED <<lines, returned, nnext, nonScanVars>>

InitScanner ==
    /\ lines \in LineLists
    /\ position = 0
    /\ returned = <<>>
    /\ gen = "none"
    /\ yielded = <<>>
    /\ scan_res = NoRes
    /\ nnext = 0
    /\ LexIdle
    /\ UpdIdle
    /\ TokIdle
    /\ ScopeIdle
    /\ AliasIdle
    /\ InterpIdle
    /\ ObjIdle

NextScanner ==
    \/ ScannerNext
    \/ ScannerReversed
    \/ GeneratorNext

SpecScanner == InitScanner /\ [][NextScanner]_vars

-----------------------------------------------------------------------------
(* Properties of Scanner *)

\* indices of the lines that are not all whitespace
NonBlankLines == {i \in 0..(Len(lines) - 1) : NonBlank(lines[i + 1])}

\* the Commands next() returned are for lines in a, in increasing order, none
\* of a left out before the latest one
InOrderOver(a) ==
    /\ \A i, j \in 1..Len(returned) : i < j => returned[i] < returned[j]
    /\ SeqToSet(returned) \subseteq a
    /\ \A i \in a : (\E j \in SeqToSet(returned) : i < j) => i \in SeqToSet(returned)

\* next() has just raised StopIteration
Stopped == scan_res.op = "next" /\ scan_res.line = NoneInt

\* C16: as long as reversed() is not used, the Commands next() has returned are
\* one for each line that is not all whitespace, in increasing order and without
\* leaving one out, and when next() raises StopIteration every line that is not
\* all whitespace has been returned.
C16_NextReturnsEveryLine ==
    gen = "none" =>
        /\ InOrderOver(NonBlankLines)
        /\ Stopped => NonBlankLines \subseteq SeqToSet(returned)

\* as long as reversed() is not used, next() returns one Command for each line
\* that is not all whitespace except the last line of the list, which it never
\* returns, and raises StopIteration when all of those have been returned
C16_AllButLastLine ==
    gen = "none" =>
        /\ InOrderOver(NonBlankLines \ {Len(lines) - 1})
        /\ Stopped => (NonBlankLines \ {Len(lines) - 1}) \subseteq SeqToSet(returned)

\* the generator made by reversed(scanner) has just ended
Exhausted == scan_res.op = "reversed" /\ gen = "done"

\* C17: the generator of reversed(scanner) yields Commands only for lines that
\* are not all whitespace and that next() has returned, in decreasing order,
\* and when it has ended the position is 0.
C17_ReversedYieldsReturned ==
    /\ SeqToSet(yielded) \subseteq NonBlankLines \cap SeqToSet(returned)
    /\ \A i, j \in 1..Len(yielded) : i < j => yielded[i] > yielded[j]
    /\ Exhausted => position = 0

\* the generator of reversed(scanner) yields Commands only for lines that are
\* not all whitespace, in decreasing order, whether next() has returned them
\* or not, and when it has ended the position is 0
C17_ReversedFromPosition ==
    /\ SeqToSet(yielded) \subseteq NonBlankLines
    /\ \A i, j \in 1..Len(yielded) : i < j => yielded[i] > yielded[j]
    /\ Exhausted => position = 0

-----------------------------------------------------------------------------
(* modules.py: CompilableDefinition *)

\* `value & self.good_xpath_templates`: the templates in both sets
Both(good, sloppy) == SelectSeq(sloppy, LAMBDA t : t \in SeqToSet(good))

\* CompilableDefinition._validate_sloppy_xpath_templates passes
ValidSloppy(good, sloppy) == Both(good, sloppy) = <<>>

button == <<"b", "u", "t", "t", "o", "n">>

\* FullDefinition(name='button', token_type=tokens.Noun)
ButtonDefinition == FullDefinition(button, "Noun", NoneSeq, EmptyMap, EmptyMap, EmptyMap)

\* the fields of CompilableDefinition(name='button', token_type=tokens.Noun,
\* good_xpath_templates=good, sloppy_xpath_templates=sloppy)
CompilableDefinition(good, sloppy) ==
    [name |-> ButtonDefinition.name,
     token_type |-> ButtonDefinition.token_type,
     pattern |-> ButtonDefinition.pattern,
     consumers |-> ButtonDefinition.consumers,
     interpretations |-> ButtonDefinition.interpretations,
     outputters |-> ButtonDefinition.outputters,
     good_xpath_templates |-> good,
     sloppy_xpath_templates |-> sloppy,
     filters |-> <<>>]

\* the same Definition constructed with filters=OrderedSet(fs)
WithFilters(d, fs) == [d EXCEPT !.filters = fs]

\* other is a CompilableDefinition: reading its templates raises no
\* AttributeError
HasTemplates(other) == "good_xpath_templates" \in DOMAIN other

\* CompilableDefinition.update: the exception raised, if any, and self as the
\* call leaves it. The template sets are assigned before attr.validate(self)
\* runs the validator of sloppy_xpath_templates.
CompilableUpdate(self, other, merge) ==
    LET super == Update(self, other, merge)
    IN IF ~IsOk(super) THEN [kind |-> super.kind, self |-> self]
       ELSE LET good == IF ~HasTemplates(other) THEN self.good_xpath_templates
                        ELSE IF merge
                        THEN OrderedUnion(self.good_xpath_templates,
                                          other.good_xpath_templates)
                        ELSE other.good_xpath_templates
                sloppy == IF ~HasTemplates(other) THEN self.sloppy_xpath_templates
                          ELSE IF merge
                          THEN OrderedUnion(self.sloppy_xpath_templates,
                                            other.sloppy_xpath_templates)
                          ELSE other.sloppy_xpath_templates
                \* the block that reads other.sloppy_xpath_templates as filters
                again == IF ~HasTemplates(other) THEN sloppy
                         ELSE IF merge
                         THEN OrderedUnion(sloppy, other.sloppy_xpath_templates)
                         ELSE other.sloppy_xpath_templates
                after == [super.val EXCEPT !.good_xpath_templates = good,
                                           !.sloppy_xpath_templates = again]
            IN [kind |-> IF ValidSloppy(good, again) THEN "ok" ELSE "ValueError",
                self |-> after]

\* the xpath templates in use, and the OrderedSets of them
Templates == {"descendant::button", "descendant::span"}

TemplateSets ==
    {ts \in UNION {[1..n -> Templates] : n \in 0..Cardinality(Templates)} :
        \A i, j \in 1..Len(ts) : ts[i] = ts[j] => i = j}

\* the Definitions passed to update() as other: every CompilableDefinition that
\* can be constructed, and a FullDefinition
CompilablePool ==
    {CompilableDefinition(pair[1], pair[2]) :
        pair \in {q \in TemplateSets \X TemplateSets : ValidSloppy(q[1], q[2])}}
        \cup {ButtonDefinition,
              WithFilters(CompilableDefinition(<<>>, <<>>), <<"is_displayed">>)}

\* subject = CompilableDefinition(good_xpath_templates=good,
\* sloppy_xpath_templates=sloppy); the validator refuses an overlap and no
\* Definition is made
ConstructCompilable(good, sloppy) ==
    /\ subject = NoDefinition
    /\ upd' = [op |-> "construct", good |-> good, sloppy |-> sloppy,
               out |-> IF ValidSloppy(good, sloppy) THEN "ok" ELSE "ValueError"]
    /\ subject' = IF ValidSloppy(good, sloppy)
                  THEN CompilableDefinition(good, sloppy) ELSE subject
    /\ UNCHANGED <<nupd, nonUpdVars>>

\* subject = CompilableDefinition(filters=OrderedSet([is_enabled]))
ConstructFiltered ==
    /\ subject = NoDefinition
    /\ upd' = [op |-> "construct", good |-> <<>>, sloppy |-> <<>>, out |-> "ok"]
    /\ subject' = WithFilters(CompilableDefinition(<<>>, <<>>), <<"is_enabled">>)
    /\ UNCHANGED <<nupd, nonUpdVars>>

\* subject.update(other, merge) on a CompilableDefinition
DoCompilableUpdate(other, merge) ==
    /\ subject # NoDefinition
    /\ nupd < MaxUpdates
    /\ LET out == CompilableUpdate(subject, other, merge)
       IN /\ upd' = [op |-> "update", before |-> subject, other |-> other,
                     merge |-> merge, out |-> out.kind]
          /\ subject' = out.self
    /\ nupd' = nupd + 1
    /\ UNCHANGED nonUpdVars

InitCompilable ==
    /\ UpdIdle
    /\ LexIdle
    /\ TokIdle
    /\ ScopeIdle
    /\ AliasIdle
    /\ ScanIdle
    /\ InterpIdle
    /\ ObjIdle

NextCompilable ==
    \/ \E g, sl \in TemplateSets : ConstructCompilable(g, sl)
    \/ ConstructFiltered
    \/ \E other \in CompilablePool, merge \in BOOLEAN : DoCompilableUpdate(other, merge)

SpecCompilable == InitCompilable /\ [][NextCompilable]_vars

-----------------------------------------------------------------------------
(* Properties of CompilableDefinition *)

\* the sets as update() computes them from before and other
UnionOverlaps(before, other, merge) ==
    /\ HasTemplates(other)
    /\ IF merge
       THEN (SeqToSet(before.good_xpath_templates)
                \cup SeqToSet(other.good_xpath_templates))
            \cap (SeqToSet(before.sloppy_xpath_templates)
                    \cup SeqToSet(other.sloppy_xpath_templates)) # {}
       ELSE SeqToSet(other.good_xpath_templates)
                \cap SeqToSet(other.sloppy_xpath_templates) # {}

\* constructing with a template in both sets fails and makes no Definition; an
\* update whose resulting sets share a template fails with ValueError
C18_OverlapRefused ==
    /\ (upd.op = "construct"
            /\ SeqToSet(upd.good) \cap SeqToSet(upd.sloppy) # {})
        => upd.out = "ValueError" /\ subject = NoDefinition
    /\ (upd.op = "update" /\ UnionOverlaps(upd.before, upd.other, upd.merge))
        => upd.out = "ValueError"

\* C18: the good and the sloppy templates of a CompilableDefinition never share
\* a template: constructing with an overlap fails, and an update whose union
\* overlaps fails and does not leave self with overlapping sets.
C18_TemplateDisjointness ==
    /\ C18_OverlapRefused
    /\ subject # NoDefinition
        => SeqToSet(subject.good_xpath_templates)
            \cap SeqToSet(subject.sloppy_xpath_templates) = {}

-----------------------------------------------------------------------------
(* modules.py: Module.__getitem__ on one Module *)

\* module[key] for a string key. `keyword, token_type = keyword` unpacks a
\* string of two characters like a 2-tuple: the first character becomes the
\* keyword and the second the token type, and reading the __mro__ of that
\* string raises AttributeError. Any other string raises ValueError in the
\* unpacking, which leaves the keyword whole and token_type None.
ModuleGetItemString(defs, key) ==
    IF Len(key) = 2
    THEN IF <<key[1]>> \in DOMAIN defs.kw /\ defs.kw[<<key[1]>>].isNone
         THEN Raise("RemovedDefinition")
         ELSE Raise("AttributeError")
    ELSE ModuleGetItem(defs, key, NoneVal)

go == <<"g", "o">>

\* the keywords looked up in the Module
ModuleKeywords == {click, go}

\* the Definition of the default of all Tokens (name=None)
TokenDefault ==
    FullDefinition(NoneSeq, "Token", NoneSeq,
                   "Command" :> Bucket("preconsume" :> "f8" @@ "postconsume" :> "f8"),
                   "Command" :> "f8",
                   "raw" :> "f8")

\* the Definitions handed to add_definition of the Module
ModulePool ==
    DefinitionPool
        \cup {VerbDefault, TokenDefault,
              FullDefinition(go, "Verb", NoneSeq, EmptyMap, EmptyMap, EmptyMap)}

\* the Module the lookups are made in
TheModule == "A"

\* module[key]
ModuleItem(key) ==
    /\ res' = [op |-> "module.getitem", key |-> key,
               out |-> ModuleGetItemString(definitions[TheModule], key)]
    /\ UNCHANGED <<definitions, required, modules, ndefs, nonLexVars>>

InitModule == Init

NextModule ==
    \/ \E d \in ModulePool : AddDefinition(TheModule, d)
    \/ \E k \in ModuleKeywords : RemoveKeyword(TheModule, k)
    \/ \E tt \in {"Token", "Verb"} : RemoveTokenType(TheModule, tt)
    \/ \E k \in ModuleKeywords : ModuleItem(k)

SpecModule == InitModule /\ [][NextModule]_vars

-----------------------------------------------------------------------------
(* Properties of Module.__getitem__ *)

\* the token types of the ancestor chain of keyword k's Definition that have
\* an entry in the Module, most generic first
ChainOf(k) ==
    SelectSeq(Reverse(Mro(Stored(TheModule, k).token_type)),
              LAMBDA tt : tt \in DOMAIN definitions[TheModule].tt)

\* some token type on that chain has a falsy entry
ChainRemoved(k) ==
    \E i \in 1..Len(ChainOf(k)) : definitions[TheModule].tt[ChainOf(k)[i]].isNone

\* the Definitions module[k] applies, in the order it applies them: the
\* defaults along the chain, then the keyword's own entry
LevelsOf(k) ==
    [i \in 1..Len(ChainOf(k)) |-> definitions[TheModule].tt[ChainOf(k)[i]].def]
        \o <<Stored(TheModule, k)>>

\* in r every hook of consumers that level i of l sets and no later level
\* mentions has the value of level i
ConsumersFromMostSpecific(r, l) ==
    \A i \in 1..Len(l) : \A c \in DOMAIN l[i].consumers : \A h \in HookNames :
        (/\ SetsHook(l[i].consumers, c, h)
         /\ \A j \in (i + 1)..Len(l) : ~MentionsHook(l[j].consumers, c, h))
        => /\ SetsHook(r.consumers, c, h)
           /\ r.consumers[c].hooks[h] = l[i].consumers[c].hooks[h]

\* in r every interpretation and outputter that level i of l sets has the
\* value of level i unless a later level mentions it
FlatFromMostSpecific(r, l) ==
    \A i \in 1..Len(l) :
        /\ \A k \in DOMAIN l[i].interpretations :
            (\A j \in (i + 1)..Len(l) : k \notin DOMAIN l[j].interpretations)
            => k \in DOMAIN r.interpretations
                /\ r.interpretations[k] = l[i].interpretations[k]
        /\ \A k \in DOMAIN l[i].outputters :
            (\A j \in (i + 1)..Len(l) : k \notin DOMAIN l[j].outputters)
            => k \in DOMAIN r.outputters /\ r.outputters[k] = l[i].outputters[k]

\* module[key] has just returned a Definition
Resolved == res.op = "module.getitem" /\ IsOk(res.out)

\* C19: the Definition module[keyword] returns has, for every hook of
\* consumers, interpretations and outputters, the value of the most specific
\* level that sets it (the keyword's own entry, else the nearest category
\* default on the ancestor chain); hooks set only at a generic level are kept.
C19_MostSpecificWins ==
    Resolved =>
        /\ ConsumersFromMostSpecific(res.out.val, LevelsOf(res.key))
        /\ FlatFromMostSpecific(res.out.val, LevelsOf(res.key))

\* the Definition module[keyword] returns has, for every hook of consumers,
\* the value of the most specific level that sets it; hooks of consumers set
\* only at a generic level are kept
C19_ConsumersMostSpecificWins ==
    Resolved => ConsumersFromMostSpecific(res.out.val, LevelsOf(res.key))

\* module[key] has been asked for a keyword the Module removes, or for one it
\* defines with a removed token type on its ancestor chain
Blocked(key) ==
    \/ Removes(TheModule, key)
    \/ Defines(TheModule, key) /\ ChainRemoved(key)

\* C20: module[keyword] raises RemovedDefinition whenever the keyword's own
\* entry is falsy or a token type on its ancestor chain has a falsy entry in
\* the Module, whatever the other entries are.
C20_RemovalBlocks ==
    (res.op = "module.getitem" /\ Blocked(res.key))
        => res.out.kind = "RemovedDefinition"

\* the same for keywords that are not two characters long
C20_RemovalBlocksLongKeywords ==
    (res.op = "module.getitem" /\ Blocked(res.key) /\ Len(res.key) # 2)
        => res.out.kind = "RemovedDefinition"

-----------------------------------------------------------------------------
(* Properties of update() on the hooks of a single Definition *)

\* update(other, merge) has just returned
Updated == upd.op = "update" /\ upd.out = "ok"

\* an entry of consumers that tests False: None or an empty dict
BucketFalsy(bucket) == bucket.isNone \/ DOMAIN bucket.hooks = {}

\* the buckets self and other both hold, self's being a dict
SharedBuckets ==
    {c \in DOMAIN upd.before.consumers \cap DOMAIN upd.other.consumers :
        ~upd.before.consumers[c].isNone}

\* bucket c of self after update(other, merge=True) is self's merged with
\* other's hook by hook: other's hooks win, a falsy hook of other is not set,
\* the hooks other does not mention are as they were
MergedHookByHook(c) ==
    LET mine == upd.before.consumers[c].hooks
        theirs == upd.other.consumers[c].hooks
    IN /\ c \in DOMAIN subject.consumers
       /\ ~subject.consumers[c].isNone
       /\ \A h \in DOMAIN theirs :
            IF theirs[h] = NoneVal
            THEN ~SetsHook(subject.consumers, c, h)
            ELSE SetsHook(subject.consumers, c, h)
                    /\ subject.consumers[c].hooks[h] = theirs[h]
       /\ \A h \in DOMAIN mine \ DOMAIN theirs :
            /\ h \in DOMAIN subject.consumers[c].hooks
            /\ subject.consumers[c].hooks[h] = mine[h]

\* C21: for a consumer both self and other hold, a falsy bucket in other
\* deletes the bucket from self whatever merge is; otherwise merge=False
\* replaces self's bucket by other's and merge=True merges them hook by hook.
C21_TwoLevelMerge ==
    Updated =>
        \A c \in SharedBuckets :
            IF BucketFalsy(upd.other.consumers[c])
            THEN c \notin DOMAIN subject.consumers
            ELSE IF upd.merge THEN MergedHookByHook(c)
            ELSE subject.consumers[c] = upd.other.consumers[c]

\* the same with None in place of falsy: a bucket that is None in other deletes
\* the bucket from self, an empty dict is replaced or merged like any dict
C21_NoneDeletesBucket ==
    Updated =>
        \A c \in SharedBuckets :
            IF upd.other.consumers[c].isNone
            THEN c \notin DOMAIN subject.consumers
            ELSE IF upd.merge THEN MergedHookByHook(c)
            ELSE subject.consumers[c] = upd.other.consumers[c]

\* the flat map after is before updated with other like a dict: the keys only
\* before has are kept, the keys of other have other's value
MappingUpdate(after, before, other) ==
    /\ DOMAIN after = DOMAIN before \cup DOMAIN other
    /\ \A k \in DOMAIN before \ DOMAIN other : after[k] = before[k]
    /\ \A k \in DOMAIN other : after[k] = other[k]

\* the keys only before has are kept, the keys only other has are added, and the
\* keys both have keep the value of before
MappingSetDefault(after, before, other) ==
    /\ DOMAIN after = DOMAIN before \cup DOMAIN other
    /\ \A k \in DOMAIN before : after[k] = before[k]
    /\ \A k \in DOMAIN other \ DOMAIN before : after[k] = other[k]

\* C22: update(other, merge=True) leaves interpretations and outputters as a
\* mapping update would: keys only in self kept, keys only in other added, and
\* for the keys in both the entry of other.
C22_FlatMerge ==
    Merged =>
        /\ MappingUpdate(subject.interpretations, upd.before.interpretations,
                         upd.other.interpretations)
        /\ MappingUpdate(subject.outputters, upd.before.outputters,
                         upd.other.outputters)

\* update(other, merge=True) keeps the keys only in self, adds the keys only in
\* other, and for the keys in both keeps the entry of self
C22_FlatMergeKeepsSelf ==
    Merged =>
        /\ MappingSetDefault(subject.interpretations, upd.before.interpretations,
                             upd.other.interpretations)
        /\ MappingSetDefault(subject.outputters, upd.before.outputters,
                             upd.other.outputters)

\* the pattern is None or ''
EmptyPattern(p) == p \in {NoneSeq, <<>>}

\* C23: after update(other, merge) the pattern of self is that of other, except
\* when merge is true and the pattern of other is empty: then it is the pattern
\* self had.
C23_PatternMerge ==
    Updated =>
        subject.pattern = IF upd.merge /\ EmptyPattern(upd.other.pattern)
                          THEN upd.before.pattern
                          ELSE upd.other.pattern

\* update(other, merge=True) with an empty pattern in other has kept a pattern
\* of self that is not empty
C23_Witness ==
    /\ Updated
    /\ upd.merge
    /\ upd.other.pattern = <<>>
    /\ ~EmptyPattern(upd.before.pattern)
    /\ subject.pattern = upd.before.pattern

-----------------------------------------------------------------------------
(* Properties of CompilableDefinition.update *)

\* update(other) of a CompilableDefinition with a CompilableDefinition has just
\* returned
CompilableUpdated == Updated /\ HasTemplates(upd.other)

\* C24: after CompilableDefinition.update(other) the good templates, the
\* sloppy templates and the filters of self are each what self had followed by
\* what only other had; nothing self had is dropped.
C24_Union ==
    CompilableUpdated =>
        /\ subject.good_xpath_templates =
            OrderedUnion(upd.before.good_xpath_templates, upd.other.good_xpath_templates)
        /\ subject.sloppy_xpath_templates =
            OrderedUnion(upd.before.sloppy_xpath_templates,
                         upd.other.sloppy_xpath_templates)
        /\ subject.filters = OrderedUnion(upd.before.filters, upd.other.filters)

\* after update(other, merge=True) the good and the sloppy templates are the
\* unions, after update(other, merge=False) they are those of other, and the
\* filters of self are what they were in both cases
C24_TemplatesOnly ==
    CompilableUpdated =>
        /\ subject.good_xpath_templates =
            IF upd.merge
            THEN OrderedUnion(upd.before.good_xpath_templates,
                              upd.other.good_xpath_templates)
            ELSE upd.other.good_xpath_templates
        /\ subject.sloppy_xpath_templates =
            IF upd.merge
            THEN OrderedUnion(upd.before.sloppy_xpath_templates,
                              upd.other.sloppy_xpath_templates)
            ELSE upd.other.sloppy_xpath_templates
        /\ subject.filters = upd.before.filters

-----------------------------------------------------------------------------
(* Properties of the composite lexicon[keyword] returns *)

\* lexicon[key] has just returned a Definition
Composed == res.op = "getitem" /\ IsOk(res.out)

\* no entry of consumers, interpretations or outputters is None
NoNoneEntries(d) ==
    /\ \A c \in DOMAIN d.consumers : ~d.consumers[c].isNone
    /\ \A k \in DOMAIN d.interpretations : d.interpretations[k] # NoneVal
    /\ \A k \in DOMAIN d.outputters : d.outputters[k] # NoneVal

\* no hook inside a bucket of consumers is None
NoNoneHooks(d) ==
    \A c \in DOMAIN d.consumers :
        ~d.consumers[c].isNone =>
            \A h \in DOMAIN d.consumers[c].hooks : d.consumers[c].hooks[h] # NoneVal

\* C25: the Definition lexicon[keyword] returns holds no cue for removal: no
\* entry of consumers, interpretations or outputters is None and no hook inside
\* a bucket of consumers is None.
C25_NoTombstones ==
    Composed => NoNoneEntries(res.out.val) /\ NoNoneHooks(res.out.val)

\* the Definition lexicon[keyword] returns has no entry of consumers,
\* interpretations or outputters that is None
C25_NoNoneBuckets ==
    Composed => NoNoneEntries(res.out.val)

-----------------------------------------------------------------------------
(* tokenizer.py: tokenize, over definitions whose patterns match at the same
   place *)

fr == <<"f", "r">>
blanks == <<"b", "l", "a", "n", "k", "s">>

\* Modules whose patterns overlap: fr and fredbarney match where fred does, the
\* pattern of blanks matches where the pattern of space does; space is a
\* Seperator, as in basic.py
CandidateDefinitions ==
    [m \in {"base_module", "modifying_module", "other_module"} |->
        IF m = "base_module"
        THEN [kw |-> fred :> DefEntry(FullDefinition(fred, "Verb", NoneSeq,
                                "Command" :> Bucket("posttokenize" :> "add_modifying_module"),
                                EmptyMap, EmptyMap))
                     @@ wilma :> DefEntry(FullDefinition(wilma, "Verb", NoneSeq,
                                EmptyMap, EmptyMap, EmptyMap))
                     @@ (fred \o barney) :> DefEntry(FullDefinition(fred \o barney, "Noun",
                                NoneSeq, EmptyMap, EmptyMap, EmptyMap))
                     @@ space :> DefEntry(FullDefinition(space, "Seperator", <<" ">>,
                                EmptyMap, EmptyMap, EmptyMap)),
              tt |-> EmptyMap]
        ELSE IF m = "modifying_module"
        THEN [kw |-> fr :> DefEntry(FullDefinition(fr, "Noun", NoneSeq,
                                EmptyMap, EmptyMap, EmptyMap)),
              tt |-> EmptyMap]
        ELSE [kw |-> space :> DefEntry(FullDefinition(space, "Seperator", <<" ">>,
                                EmptyMap, EmptyMap, EmptyMap))
                     @@ blanks :> DefEntry(FullDefinition(blanks, "Token", <<WS>>,
                                EmptyMap, EmptyMap, EmptyMap)),
              tt |-> EmptyMap]]

InitCandidates ==
    /\ definitions = CandidateDefinitions
    /\ required = [m \in DOMAIN CandidateDefinitions |-> <<>>]
    /\ modules = <<"base_module">>
    /\ ndefs = 0
    /\ res = NoRes
    /\ UpdIdle
    /\ TokIdle
    /\ ScopeIdle
    /\ AliasIdle
    /\ ScanIdle
    /\ InterpIdle
    /\ ObjIdle

SpecCandidates == InitCandidates /\ [][NextTokenize]_vars

\* the pattern of the item matches in the line at the cursor
MatchesAtStart(item) == MatchFrom(item[2].pattern, 1, code, start) # NoneInt

\* the pass of the while loop made a token
TokenMade == pc = "while" /\ Len(found_tokens') = Len(found_tokens) + 1

\* C26: the token a pass of the while loop makes is of a definition the Lexicon
\* resolves at that time, whose pattern matches at the cursor ignoring case and
\* is no longer than the pattern of any other definition matching there; the
\* token has the token type of that definition, starts at the cursor and ends
\* where the match ends.
C26_CandidateOrder ==
    [][TokenMade =>
        /\ IsOk(LexiconItems)
        /\ \E it \in LexiconItems.val :
            /\ MatchesAtStart(it)
            /\ \A o \in LexiconItems.val :
                MatchesAtStart(o) => PatternLen(it[2].pattern) <= PatternLen(o[2].pattern)
            /\ found_tokens'[Len(found_tokens')] =
                    [type |-> it[2].token_type, keyword |-> it[2].name,
                     start |-> start, end |-> MatchFrom(it[2].pattern, 1, code, start)]
            /\ start' = MatchFrom(it[2].pattern, 1, code, start)]_vars

\* fr was made a token where the longer patterns of fred and of fredbarney
\* match too, and space where the longer pattern of blanks matches too
C26_Witness ==
    /\ IsOk(LexiconItems)
    /\ \E f, s, b \in LexiconItems.val :
        /\ f[1] = fred /\ f[2].pattern = fred
        /\ s[1] = space /\ s[2].pattern = <<" ">>
        /\ b[1] = blanks /\ b[2].pattern = <<WS>>
    /\ \E i, j \in 1..Len(found_tokens) :
        /\ found_tokens[i].keyword = fr
        /\ found_tokens[i].type = "Noun"
        /\ HasAt(fred \o barney, found_tokens[i].start)
        /\ found_tokens[i].end = found_tokens[i].start + 2
        /\ found_tokens[j].keyword = space
        /\ found_tokens[j].end = found_tokens[j].start + 1

-----------------------------------------------------------------------------
(* Properties of the list tokenize returns *)

\* the tokens of the list whose token type is a Seperator
SeperatorsIn(toks) == {i \in 1..Len(toks) : IsSubclass(toks[i].type, "Seperator")}

\* C27: separator tokens are recognized while the line is scanned but are not
\* in the list of tokens returned for the line.
C27_SeparatorsFiltered ==
    pc = "returned" => SeperatorsIn(found_tokens) = {}

\* what tokenize does: the list it returns covers the line without a gap, the
\* text its Seperator tokens stand for included
C27_SeparatorsReturned ==
    pc = "returned" => TiledTo(Len(code))

-----------------------------------------------------------------------------
(* visioninterpreter.py: test_action, interpret_require, end_scope_action and
   the Interpreter fields they read *)

\* the variables the commands that open and close scopes leave alone
nonCloseVars == <<file_line, file_position, file_done, sub_lines, sub_position, scanner,
                  lexVars, updVars, tokVars, aliasVars, scanVars, objVars>>

\* commands handled in one behaviour
MaxCommands == 4

\* webdriver.current_url
Urls == {"page1", "page2"}

\* the labels of the scopes, and no label
Labels == {"a", "r"}
NoLabel == ""

\* a command as end_scope_action reads it: verb.type, verb.value, scopechange,
\* skip, url and error
ScopeCommand(verb_type, verb_value, change, skip, url, error) ==
    [type |-> verb_type, value |-> verb_value, scopechange |-> change,
     skip |-> skip, url |-> url, error |-> error]

\* errored_or_skipping if it did not look at errorfound
ErroredOrSkippingOnly ==
    \E i \in 1..Len(CommandScopes(children)) : CommandScopes(children)[i].skip

\* Interpreter.next: the command is not interpreted when an error was found and
\* interactivity is off, or when an open scope is skipped
ErroredOrSkipping ==
    \/ interpreter.errorfound /\ ~interpreter.interactivity_enabled
    \/ \E i \in 1..Len(CommandScopes(children)) : CommandScopes(children)[i].skip

\* how the last command went
CloseOutcome(op, read, ended, raised, got) ==
    [op |-> op, line |-> read, ended |-> ended, raised |-> raised, get |-> got]

\* "Test '<label>'": test_action gives the command scopechange 1
TestCommand(label) ==
    /\ Len(children) < MaxCommands
    /\ children' = Append(children, ScopeCommand("test", label, 1, FALSE, NoneVal, FALSE))
    /\ outcome' = CloseOutcome("test", label, NoneVal, NoneVal, NoneVal)
    /\ UNCHANGED <<interpreter, nonCloseVars>>

\* "Require <label>": test_action gives the command scopechange 1; when the
\* command is interpreted, interpret_require saves webdriver.current_url in it,
\* or marks it skipped if the flag of the requirement is set
RequireCommand(label, flag_set) ==
    /\ Len(children) < MaxCommands
    /\ children' = Append(children,
            IF ErroredOrSkipping
            THEN ScopeCommand("require", label, 1, FALSE, NoneVal, FALSE)
            ELSE IF flag_set
            THEN ScopeCommand("require", label, 1, TRUE, NoneVal, FALSE)
            ELSE ScopeCommand("require", label, 1, FALSE, interpreter.current_url, FALSE))
    /\ outcome' = CloseOutcome("require", label, NoneVal, NoneVal, NoneVal)
    /\ UNCHANGED <<interpreter, nonCloseVars>>

\* a command that makes the browser load another page
Navigate(url) ==
    /\ interpreter.current_url # url
    /\ ~ErroredOrSkipping
    /\ interpreter' = [interpreter EXCEPT !.current_url = url]
    /\ outcome' = CloseOutcome("navigate", NoLabel, NoneVal, NoneVal, NoneVal)
    /\ UNCHANGED <<children, nonCloseVars>>

\* interpreter.interactivity_enabled = False
DisableInteractivity ==
    /\ interpreter.interactivity_enabled
    /\ interpreter' = [interpreter EXCEPT !.interactivity_enabled = FALSE]
    /\ outcome' = CloseOutcome("disable", NoLabel, NoneVal, NoneVal, NoneVal)
    /\ UNCHANGED <<children, nonCloseVars>>

\* close_url of end_scope_action: the url of the scope the loop stopped at,
\* unless the scope is skipped
CloseUrl(scope) == IF ~scope.skip THEN scope.url ELSE NoneVal

\* the test before webdriver.get if it looked at close_url alone
ClosesBackAlways(close_url) == close_url # NoneVal

\* if close_url and (not interpreter.errorfound or interpreter.interactivity_enabled)
ClosesBack(close_url) ==
    /\ close_url # NoneVal
    /\ (~interpreter.errorfound \/ interpreter.interactivity_enabled)

\* "End <type> ['<label>']": end_scope_action, and handle_parse when it raises
EndScope(verb_type, label) ==
    /\ Len(children) < MaxCommands
    /\ LET ended == EndScopeAction(children, MatchingType(verb_type), label)
           close_url == IF ended.matched THEN CloseUrl(ended.scope) ELSE NoneVal
           gets == ended.matched /\ ClosesBack(close_url)
       IN /\ children' = Append(children,
                ScopeCommand(verb_type, label, ended.change, FALSE, NoneVal, ~ended.matched))
          /\ interpreter' = [interpreter EXCEPT
                !.errorfound = @ \/ ~ended.matched,
                !.current_url = IF gets THEN close_url ELSE @]
          /\ outcome' = CloseOutcome("end", label, ended,
                IF ended.matched THEN NoneVal ELSE "UnmatchedEndScopeError",
                IF gets THEN close_url ELSE NoneVal)
    /\ UNCHANGED nonCloseVars

InitClose ==
    /\ children = <<>>
    /\ file_line = NoLine
    /\ file_position = 0
    /\ file_done = FALSE
    /\ sub_lines = <<>>
    /\ sub_position = 0
    /\ scanner = NoneVal
    /\ outcome = CloseOutcome("none", NoLabel, NoneVal, NoneVal, NoneVal)
    /\ interpreter = [errorfound |-> FALSE, interactivity_enabled |-> TRUE,
                      current_url |-> "page1"]
    /\ LexIdle
    /\ UpdIdle
    /\ TokIdle
    /\ AliasIdle
    /\ ScanIdle
    /\ ObjIdle

NextClose ==
    \/ \E label \in Labels : TestCommand(label)
    \/ \E label \in Labels, flag_set \in BOOLEAN : RequireCommand(label, flag_set)
    \/ \E url \in Urls : Navigate(url)
    \/ DisableInteractivity
    \/ \E verb_type \in {"end test", "end require"}, label \in Labels \cup {NoLabel} :
            EndScope(verb_type, label)

SpecClose == InitClose /\ [][NextClose]_vars

-----------------------------------------------------------------------------
(* Properties of end_scope_action *)

\* the last command was a close command
Ended == outcome.op = "end"

\* the commands before the last one
Earlier == SubSeq(children, 1, Len(children) - 1)

\* the open scopes, oldest first, that a close command of the type, with the
\* label if it has one, can end
Matching(scopes, verb_type, label) ==
    {i \in 1..Len(scopes) :
        /\ scopes[i].type = MatchingType(verb_type)
        /\ (label = NoLabel \/ scopes[i].value = label)}

\* the sequence without its i-th element
Without(seq, i) == SubSeq(seq, 1, i - 1) \o SubSeq(seq, i + 1, Len(seq))

RECURSIVE ScopeLevel(_)
ScopeLevel(cs) == IF cs = <<>> THEN 0 ELSE cs[1].scopechange + ScopeLevel(Tail(cs))

Unmatched == Ended /\ outcome.raised = "UnmatchedEndScopeError"

\* C29: when a close command fails with UnmatchedEndScopeError, the open scopes
\* and the sum of the scope changes are what they were before the command.
C29_NoMutationOnError ==
    Unmatched =>
        /\ CommandScopes(children) = CommandScopes(Earlier)
        /\ ScopeLevel(children) = ScopeLevel(Earlier)

\* what the finally clause of end_scope_action does: the failed command is
\* given the change the loop ended with, so that no scope is left open
C29_UnmatchedClosesAll ==
    Unmatched =>
        /\ children[Len(children)].scopechange = 0 - ScopeLevel(Earlier)
        /\ ScopeLevel(children) = 0

\* the step is a close command
EndScopeStep == outcome'.op = "end" /\ Len(children') = Len(children) + 1

\* C30: a close command makes the browser load the url saved in the scope it
\* ended if that scope saved one and is not skipped and no error was found or
\* interactivity is enabled; in every other case a close command leaves the
\* browser where it is.
C30_Resumption ==
    [][EndScopeStep =>
        LET ended == outcome'.ended
        IN IF /\ ended.matched
              /\ ended.scope.url # NoneVal
              /\ ~ended.scope.skip
              /\ (~interpreter.errorfound \/ interpreter.interactivity_enabled)
           THEN /\ outcome'.get = ended.scope.url
                /\ interpreter'.current_url = ended.scope.url
           ELSE /\ outcome'.get = NoneVal
                /\ interpreter'.current_url = interpreter.current_url]_vars

\* after an error was found, with interactivity enabled, a close command took
\* the browser back from another page to the url its scope saved
C30_Witness ==
    /\ Ended
    /\ outcome.get # NoneVal
    /\ interpreter.errorfound
    /\ interpreter.interactivity_enabled
    /\ \E i \in 1..Len(Earlier) : Earlier[i].error
    /\ interpreter.current_url = outcome.ended.scope.url

\* with an error found and interactivity off, a close command ended a scope
\* that saved a url and left the browser on another page
C30_Blocked ==
    /\ Ended
    /\ outcome.ended.matched
    /\ outcome.ended.scope.url # NoneVal
    /\ outcome.get = NoneVal
    /\ interpreter.current_url # outcome.ended.scope.url

-----------------------------------------------------------------------------
(* visioninterpreter.py: VisionInterpreter.next, handle_parse and
   handle_interpret_command_exception *)

\* how a call of Interpreter.next went
NextOutcome(verb_type, error, interpreted) ==
    [op |-> "next", line |-> verb_type, error |-> error, interpreted |-> interpreted]

\* Interpreter.next for a command that opens and closes no scope: handle_parse
\* reads and parses it, and it is interpreted unless errored_or_skipping holds
\* and it is not a command to the interpreter itself
InterpreterNext(interpreter_verb, parse_fails, interpret_raises) ==
    /\ Len(children) < MaxCommands
    /\ LET errored_or_skipping == parse_fails \/ ErroredOrSkipping
           is_to_the_interpreter ==
                interpreter.interactivity_enabled /\ ~parse_fails /\ interpreter_verb
           interpreted == ~errored_or_skipping \/ is_to_the_interpreter
           raised == interpreted /\ interpret_raises
           verb_type == IF interpreter_verb THEN "interactive" ELSE "click"
       IN /\ children' = Append(children,
                ScopeCommand(verb_type, NoLabel, 0, FALSE, NoneVal, parse_fails \/ raised))
          /\ interpreter' = [interpreter EXCEPT !.errorfound = @ \/ parse_fails \/ raised]
          /\ outcome' = NextOutcome(verb_type, parse_fails \/ raised, interpreted)
    /\ UNCHANGED nonCloseVars

NextCancel ==
    \/ \E interpreter_verb, parse_fails, interpret_raises \in BOOLEAN :
            InterpreterNext(interpreter_verb, parse_fails, interpret_raises)
    \/ \E label \in Labels, flag_set \in BOOLEAN : RequireCommand(label, flag_set)
    \/ DisableInteractivity
    \/ \E verb_type \in {"end test", "end require"}, label \in Labels \cup {NoLabel} :
            EndScope(verb_type, label)

SpecCancel == InitClose /\ [][NextCancel]_vars

\* an error was found and interactivity is disabled
Cancelled == interpreter.errorfound /\ ~interpreter.interactivity_enabled

\* the step reads a command and hands it to interpretation
InterpretedStep ==
    /\ Len(children') = Len(children) + 1
    /\ \/ outcome'.op = "next" /\ outcome'.interpreted
       \/ /\ outcome'.op = "require"
          /\ \/ children'[Len(children')].skip
             \/ children'[Len(children')].url # NoneVal

\* C31: once an error was found while interactivity is disabled, this stays so,
\* and of the commands read from then on none is handed to interpretation.
C31_Cancellation ==
    [][Cancelled => (Cancelled' /\ ~InterpretedStep)]_vars

\* after an error was found with interactivity disabled, a command was read
\* and parsed without error and was not interpreted
C31_Witness ==
    /\ Cancelled
    /\ outcome.op = "next"
    /\ ~outcome.error
    /\ ~outcome.interpreted
    /\ \E i \in 1..(Len(children) - 1) : children[i].error
    /\ \A i \in 1..Len(CommandScopes(children)) : ~CommandScopes(children)[i].skip

-----------------------------------------------------------------------------
(* scanner.py: Scanner.advance and Scanner.rewind, called from outside *)

\* a move of the position as it would be without the except clause that
\* takes it back
MoveUnchecked(p, step) ==
    IF ValidPosition(p + step)
    THEN [out |-> "ok", position |-> p + step, value |-> p + step]
    ELSE [out |-> "IndexError", position |-> p + step, value |-> NoneInt]

\* advance() (step 1) and rewind() (step -1): self.position += step, then
\* attr.validate(self); if that raises, self.position -= step and raise
Move(p, step) ==
    IF ValidPosition(p + step)
    THEN [out |-> "ok", position |-> p + step, value |-> p + step]
    ELSE [out |-> "IndexError", position |-> p, value |-> NoneInt]

\* how many lines a generator of reversed() may have yielded when advance() or
\* rewind() is called between two of its steps
MaxYielded == 2

\* advance() or rewind() may be called now
MayMove == gen \in {"none", "done"} \/ Len(yielded) < MaxYielded

\* scanner.advance()
ScannerAdvance ==
    /\ MayMove
    /\ position' = Move(position, 1).position
    /\ scan_res' = [op |-> "advance", before |-> position,
                    out |-> Move(position, 1).out, value |-> Move(position, 1).value]
    /\ UNCHANGED <<lines, returned, gen, yielded, nnext, nonScanVars>>

\* scanner.rewind()
ScannerRewind ==
    /\ MayMove
    /\ position' = Move(position, 0 - 1).position
    /\ scan_res' = [op |-> "rewind", before |-> position,
                    out |-> Move(position, 0 - 1).out, value |-> Move(position, 0 - 1).value]
    /\ UNCHANGED <<lines, returned, gen, yielded, nnext, nonScanVars>>

NextPosition ==
    \/ ScannerNext
    \/ ScannerReversed
    \/ GeneratorNext
    \/ ScannerAdvance
    \/ ScannerRewind

SpecPosition == InitScanner /\ [][NextPosition]_vars

\* by how much the last call was to move the position
StepOf(op) == IF op = "advance" THEN 1 ELSE 0 - 1

\* C32: advance() and rewind() either move the position by one and return the
\* new position, or raise IndexError and leave the position as it was; after
\* any sequence of next(), reversed(), advance() and rewind() the position is at
\* least 0 and below len(lines).
C32_PositionInRange ==
    /\ 0 <= position /\ position < Len(lines)
    /\ scan_res.op \in {"advance", "rewind"} =>
        \/ /\ scan_res.out = "ok"
           /\ position = scan_res.before + StepOf(scan_res.op)
           /\ scan_res.value = position
        \/ /\ scan_res.out = "IndexError"
           /\ position = scan_res.before

\* advance() was refused at the last of several lines, after next() and the
\* generator of reversed() had moved the position
C32_Witness ==
    /\ scan_res.op = "advance"
    /\ scan_res.out = "IndexError"
    /\ Len(lines) >= 2
    /\ position = Len(lines) - 1
    /\ returned # <<>>
    /\ yielded # <<>>
    /\ gen = "suspended"

-----------------------------------------------------------------------------
(* modules.py: the inner dicts of consumers as objects.  objects.heap[i] is the
   inner dict with identity i; a Definition holds, for every class of its
   consumers, the identity of an inner dict (or NoneObject for None).  One
   keyword, click, and one token type default, Verb, in two active Modules. *)

NoneObject == 0

\* the order the classes of a consumers dict are gone through
ClassOrder == <<"Command", "Verb">>

\* a Definition stored or returned: the inner dict it holds for each class
Held(cons) == [kind |-> "def", cons |-> cons]

Removed == [kind |-> "removed"]

\* the hook dicts behind cons, as values
Deref(heap, cons) ==
    [cls \in DOMAIN cons |->
        IF cons[cls] = NoneObject THEN NoneBucket ELSE Bucket(heap[cons[cls]])]

\* passing the dict of hooks on as it is, with the inner dicts of its owner
SameObjects(heap, cons) == [heap |-> heap, cons |-> cons]

RECURSIVE DeepcopyFrom(_, _, _, _)
DeepcopyFrom(heap, cons, i, acc) ==
    IF i > Len(ClassOrder) THEN [heap |-> heap, cons |-> acc]
    ELSE LET cls == ClassOrder[i]
         IN IF cls \notin DOMAIN cons THEN DeepcopyFrom(heap, cons, i + 1, acc)
            ELSE IF cons[cls] = NoneObject
            THEN DeepcopyFrom(heap, cons, i + 1, acc @@ (cls :> NoneObject))
            ELSE DeepcopyFrom(Append(heap, heap[cons[cls]]), cons, i + 1,
                              acc @@ (cls :> Len(heap) + 1))

\* copy.deepcopy of a dict of hooks: every inner dict is made anew
Deepcopy(heap, cons) == DeepcopyFrom(heap, cons, 1, EmptyMap)

\* update.update_hooks with merge_implementations, on objects: an entry of
\* self is set to the inner dict of other, or the inner dict of self is changed
\* in place
RECURSIVE UpdateHooksFrom(_, _, _, _, _)
UpdateHooksFrom(heap, self_hooks, other_hooks, merge, i) ==
    IF i > Len(ClassOrder) THEN [heap |-> heap, cons |-> self_hooks]
    ELSE LET cls == ClassOrder[i]
         IN IF cls \notin DOMAIN other_hooks
            THEN UpdateHooksFrom(heap, self_hooks, other_hooks, merge, i + 1)
            ELSE IF cls \notin DOMAIN self_hooks
            THEN UpdateHooksFrom(heap, self_hooks @@ (cls :> other_hooks[cls]),
                                 other_hooks, merge, i + 1)
            ELSE IF other_hooks[cls] = NoneObject
            THEN UpdateHooksFrom(heap,
                                 [c \in DOMAIN self_hooks \ {cls} |-> self_hooks[c]],
                                 other_hooks, merge, i + 1)
            ELSE IF merge /\ self_hooks[cls] # NoneObject
            THEN UpdateHooksFrom(
                    [heap EXCEPT ![self_hooks[cls]] =
                        MergeImplementations(@, heap[other_hooks[cls]])],
                    self_hooks, other_hooks, merge, i + 1)
            ELSE UpdateHooksFrom(heap, [self_hooks EXCEPT ![cls] = other_hooks[cls]],
                                 other_hooks, merge, i + 1)

\* FullDefinition.update for consumers:
\* update_hooks(self.consumers, copy.deepcopy(other.consumers), merge, ...)
ObjectUpdate(heap, self_hooks, other_hooks, merge) ==
    LET other_consumers == Deepcopy(heap, other_hooks)
    IN UpdateHooksFrom(other_consumers.heap, self_hooks, other_consumers.cons, merge, 1)

\* Module.__getitem__ of Module m of o: a new FullDefinition, updated with the
\* token type default and then with the Definition of the keyword
ModuleObjects(o, heap, m, with_token_type) ==
    IF o.kw[m].kind = "removed" THEN [kind |-> "RemovedDefinition", heap |-> heap]
    ELSE IF o.kw[m].kind = "absent" /\ ~with_token_type
    THEN [kind |-> "KeyError", heap |-> heap]
    ELSE IF o.tt[m].kind = "removed" THEN [kind |-> "RemovedDefinition", heap |-> heap]
    ELSE LET walked == IF o.tt[m].kind = "def"
                       THEN ObjectUpdate(heap, EmptyMap, o.tt[m].cons, TRUE)
                       ELSE [heap |-> heap, cons |-> EmptyMap]
             definition == IF o.kw[m].kind = "def"
                           THEN ObjectUpdate(walked.heap, walked.cons, o.kw[m].cons, TRUE)
                           ELSE walked
         IN [kind |-> "ok", heap |-> definition.heap, cons |-> definition.cons]

\* Lexicon.__getitem__, the loop over self.available_modules; definition is the
\* composite so far, Absent for None
RECURSIVE FoldObjects(_, _, _, _)
FoldObjects(o, heap, m, definition) ==
    IF m \notin ObjectModules THEN [heap |-> heap, definition |-> definition]
    ELSE LET defn == ModuleObjects(o, heap, m, TRUE)
         IN IF defn.kind # "ok" THEN FoldObjects(o, defn.heap, m + 1, Absent)
            ELSE LET updated == ObjectUpdate(defn.heap,
                                    IF definition.kind = "def" THEN definition.cons
                                    ELSE EmptyMap,
                                    defn.cons, TRUE)
                 IN FoldObjects(o, updated.heap, m + 1, Held(updated.cons))

\* Lexicon.__getitem__ for click
LexiconObjects(o, heap) ==
    LET mentions == {m \in ObjectModules : o.kw[m].kind # "absent"}
    IN IF mentions = {} THEN [kind |-> "KeyError", heap |-> heap]
       ELSE LET nearest == ModuleObjects(o, heap, MaxOf(mentions), FALSE)
            IN IF nearest.kind # "ok" THEN [kind |-> "KeyError", heap |-> nearest.heap]
               ELSE LET folded == FoldObjects(o, nearest.heap, 1, Absent)
                    IN IF folded.definition.kind # "def"
                       THEN [kind |-> "KeyError", heap |-> folded.heap]
                       ELSE [kind |-> "ok", heap |-> folded.heap,
                             cons |-> [cls \in {c \in DOMAIN folded.definition.cons :
                                                  folded.definition.cons[c] # NoneObject}
                                          |-> folded.definition.cons[cls]]]

\* Lexicon.keys: module[keyword] of every Module that has the keyword, for
\* what it raises only
RECURSIVE KeysObjects(_, _, _)
KeysObjects(o, heap, m) ==
    IF m \notin ObjectModules THEN heap
    ELSE IF o.kw[m].kind = "absent" THEN KeysObjects(o, heap, m + 1)
    ELSE KeysObjects(o, ModuleObjects(o, heap, m, FALSE).heap, m + 1)

\* the dicts of consumers given to FullDefinition(...)
f1 == "f1"
f2 == "f2"

ConsumersPool ==
    {("Command" :> ("preconsume" :> f1)),
     ("Command" :> ("postconsume" :> f2)) @@ ("Verb" :> ("preconsume" :> f2))}

\* FullDefinition(consumers=value): the inner dicts of value become objects
RECURSIVE ConstructFrom(_, _, _, _)
ConstructFrom(heap, value, i, acc) ==
    IF i > Len(ClassOrder) THEN [heap |-> heap, cons |-> acc]
    ELSE IF ClassOrder[i] \notin DOMAIN value THEN ConstructFrom(heap, value, i + 1, acc)
    ELSE ConstructFrom(Append(heap, value[ClassOrder[i]]), value, i + 1,
                       acc @@ (ClassOrder[i] :> Len(heap) + 1))

\* operations on the objects in one behaviour
MaxObjectOps == 4

Did(o, op) == [o EXCEPT !.op = op, !.nops = @ + 1]

\* module.add_definition(FullDefinition(consumers=value), merge=merge), under
\* the keyword (slot "kw") or as the default of the token type (slot "tt")
ObjectAddDefinition(m, slot, value, merge) ==
    /\ objects.nops < MaxObjectOps
    /\ LET given == ConstructFrom(objects.heap, value, 1, EmptyMap)
           definition == Deepcopy(given.heap, given.cons)
           mine == objects[slot][m]
           stored == IF mine.kind = "def"
                     THEN LET my_definition == Deepcopy(definition.heap, mine.cons)
                          IN ObjectUpdate(my_definition.heap, my_definition.cons,
                                          definition.cons, merge)
                     ELSE definition
       IN objects' = Did([objects EXCEPT
                            !.heap = stored.heap,
                            ![slot][m] = Held(stored.cons),
                            !.passed = Append(@, given.cons)],
                         "add_definition")
    /\ UNCHANGED <<lexVars, updVars, tokVars, scopeVars, aliasVars, scanVars, interpVars>>

\* module.add_definition(None, name=...)
ObjectRemove(m, slot) ==
    /\ objects.nops < MaxObjectOps
    /\ objects' = Did([objects EXCEPT ![slot][m] = Removed], "add_definition")
    /\ UNCHANGED <<lexVars, updVars, tokVars, scopeVars, aliasVars, scanVars, interpVars>>

\* what a call that looks click up leaves: the new heap and what it returned
Looks(heap, returned_definition, op) ==
    objects' = Did([objects EXCEPT !.heap = heap, !.composite = returned_definition], op)

\* lexicon['click']; lexicon.values() (keys() and then self[keyword]);
\* lexicon.items() (keys(), values()), which is also what tokenize calls
ObjectLexiconLookup(via) ==
    /\ objects.nops < MaxObjectOps
    /\ LET keyed == IF via = "getitem" THEN objects.heap
                    ELSE IF via = "values" THEN KeysObjects(objects, objects.heap, 1)
                    ELSE KeysObjects(objects, KeysObjects(objects, objects.heap, 1), 1)
           has == \E m \in ObjectModules : objects.kw[m].kind = "def"
           got == LexiconObjects(objects, keyed)
       IN IF via # "getitem" /\ ~has THEN Looks(keyed, Absent, via)
          ELSE Looks(got.heap, IF got.kind = "ok" THEN Held(got.cons) ELSE Absent, via)
    /\ UNCHANGED <<lexVars, updVars, tokVars, scopeVars, aliasVars, scanVars, interpVars>>

\* lexicon.keys()
ObjectKeys ==
    /\ objects.nops < MaxObjectOps
    /\ Looks(KeysObjects(objects, objects.heap, 1), Absent, "keys")
    /\ UNCHANGED <<lexVars, updVars, tokVars, scopeVars, aliasVars, scanVars, interpVars>>

\* module['click']
ObjectModuleLookup(m) ==
    /\ objects.nops < MaxObjectOps
    /\ LET got == ModuleObjects(objects, objects.heap, m, FALSE)
       IN Looks(got.heap, IF got.kind = "ok" THEN Held(got.cons) ELSE Absent, "module")
    /\ UNCHANGED <<lexVars, updVars, tokVars, scopeVars, aliasVars, scanVars, interpVars>>

\* the caller changes the composite it was given:
\* composite.consumers[cls][hook] = implementation
ObjectChange(cls, hook, implementation) ==
    /\ objects.nops < MaxObjectOps
    /\ objects.composite.kind = "def"
    /\ cls \in DOMAIN objects.composite.cons
    /\ objects' = Did([objects EXCEPT
                        !.heap[objects.composite.cons[cls]] =
                            (hook :> implementation) @@ @],
                      "change")
    /\ UNCHANGED <<lexVars, updVars, tokVars, scopeVars, aliasVars, scanVars, interpVars>>

InitObjects ==
    /\ objects = NoObjects
    /\ LexIdle
    /\ UpdIdle
    /\ TokIdle
    /\ ScopeIdle
    /\ AliasIdle
    /\ ScanIdle
    /\ InterpIdle

NextObjects ==
    \/ \E m \in ObjectModules, slot \in {"kw", "tt"}, value \in ConsumersPool,
          merge \in BOOLEAN : ObjectAddDefinition(m, slot, value, merge)
    \/ \E m \in ObjectModules, slot \in {"kw", "tt"} : ObjectRemove(m, slot)
    \/ \E via \in {"getitem", "values", "items"} : ObjectLexiconLookup(via)
    \/ ObjectKeys
    \/ \E m \in ObjectModules : ObjectModuleLookup(m)
    \/ \E cls \in SeqToSet(ClassOrder), hook \in {"preconsume", "postconsume"} :
          ObjectChange(cls, hook, "changed")

SpecObjects == InitObjects /\ [][NextObjects]_vars

-----------------------------------------------------------------------------
(* Properties of the objects behind the Definitions *)

\* the hook dicts of every stored Definition and of every Definition that was
\* passed to add_definition, as values
StoredValues(o) ==
    [kw |-> [m \in ObjectModules |->
                IF o.kw[m].kind = "def" THEN Deref(o.heap, o.kw[m].cons) ELSE o.kw[m]],
     tt |-> [m \in ObjectModules |->
                IF o.tt[m].kind = "def" THEN Deref(o.heap, o.tt[m].cons) ELSE o.tt[m]],
     passed |-> [i \in 1..Len(o.passed) |-> Deref(o.heap, o.passed[i])]]

\* the identities of the inner dicts the stored and the passed Definitions hold
StoredObjects(o) ==
    UNION ({IF o.kw[m].kind = "def" THEN {o.kw[m].cons[c] : c \in DOMAIN o.kw[m].cons}
            ELSE {} : m \in ObjectModules}
           \cup {IF o.tt[m].kind = "def" THEN {o.tt[m].cons[c] : c \in DOMAIN o.tt[m].cons}
                 ELSE {} : m \in ObjectModules}
           \cup {{o.passed[i][c] : c \in DOMAIN o.passed[i]} : i \in 1..Len(o.passed)})

\* what lexicon['click'] would return now, as a value
LookupValue(o) ==
    LET got == LexiconObjects(o, o.heap)
    IN IF got.kind = "ok" THEN Ok(Deref(got.heap, got.cons)) ELSE Raise(got.kind)

LookupOps == {"getitem", "values", "items", "keys", "module"}

\* C33: module[keyword], lexicon[keyword], keys(), values(), items() and
\* tokenize leave the stored Definitions and the objects that were passed to
\* add_definition as they were, every composite they return is made of new
\* objects, and a change of a returned composite changes neither the stored
\* Definitions nor what a later lookup returns.
C33_LookupsDoNotMutate ==
    [][objects'.op \in LookupOps \cup {"change"} =>
        /\ StoredValues(objects') = StoredValues(objects)
        /\ LookupValue(objects') = LookupValue(objects)
        /\ (objects'.op \in LookupOps /\ objects'.composite.kind = "def") =>
            \A c \in DOMAIN objects'.composite.cons :
                /\ objects'.composite.cons[c] > Len(objects.heap)
                /\ objects'.composite.cons[c] \notin StoredObjects(objects')]_vars

\* a composite built from the Definitions of both Modules was changed by its
\* caller, and what a lookup returns now is not what the caller holds
C33_Witness ==
    /\ objects.op = "change"
    /\ \A m \in ObjectModules : objects.kw[m].kind = "def"
    /\ LookupValue(objects) # Ok(Deref(objects.heap, objects.composite.cons))

-----------------------------------------------------------------------------
(* modules.py: DefinitionAlias.update.  subject is the FullDefinition every
   alias leads to (object 0); alias_own[i] holds what the i-th alias has in its
   own slots *)

alias_keyword == <<"a", "l", "i", "a", "s">>

\* DefinitionAlias(name=name, target=...) after __attrs_post_init__
OwnOf(name) == [name |-> name, pattern |-> DefaultPattern(name), title |-> name]

\* the title of a FullDefinition made without one: self.title or self.name
TitleOf(definition) == definition.name

\* a Definition named as the second alias is
alias_preconsume ==
    FullDefinition(alias_keyword, "Verb", NoneSeq,
                   "Command" :> Bucket("preconsume" :> "f8"),
                   EmptyMap, EmptyMap)

\* the Definition the doctest of DefinitionAlias.update updates its alias with
click_fred_pattern ==
    FullDefinition(click, "Verb", <<"f", "r", "e", "d">>,
                   "Command" :> Bucket(EmptyMap),
                   EmptyMap, EmptyMap)

\* a Definition of click with a token type unrelated to Verb
click_noun ==
    FullDefinition(click, "Noun", NoneSeq,
                   "Verb" :> Bucket("preconsume" :> "f4"),
                   EmptyMap, EmptyMap)

\* the Definitions passed to alias.update() as other
AliasUpdatePool ==
    {click_fred_pattern, click_remove_postconsume, click_noun, clack, alias_preconsume}

\* DefinitionAlias.update(self, other, merge) for the alias a: Ok(the ultimate
\* target and the own slots of a, as the call leaves them) or the exception
AliasUpdate(a, other, merge) ==
    IF ~(IsSubclass(other.token_type, subject.token_type)
         \/ IsSubclass(subject.token_type, other.token_type))
    THEN Raise("ValueError")
    ELSE IF alias_own[a].name # other.name THEN Raise("ValueError")
    ELSE LET me == Update(subject,
                          DefinitionAlias(subject.name, other.pattern, other),
                          merge)
         IN IF ~IsOk(me) THEN me
            ELSE Ok([target |-> me.val,
                     own |-> [alias_own[a] EXCEPT
                                !.pattern = IF merge
                                            THEN (IF PatternFalsy(other.pattern) THEN @
                                                  ELSE other.pattern)
                                            ELSE other.pattern,
                                !.title = TitleOf(other)]])

\* DefinitionAlias(name=name, target=target_value)
MakeAlias(name, target_value) ==
    /\ Len(alias_target) < MaxAliases
    /\ alias_target' = Append(alias_target, target_value)
    /\ alias_own' = Append(alias_own, OwnOf(name))
    /\ alias_res' = [op |-> "construct", self |-> Len(alias_target) + 1,
                     target |-> target_value, out |-> "ok"]
    /\ UNCHANGED <<subject, upd, nupd, lexVars, tokVars, scopeVars, scanVars,
                   interpVars, objVars>>

\* alias.update(other, merge)
DoAliasUpdate(a, other, merge) ==
    /\ nupd < MaxUpdates
    /\ LET out == AliasUpdate(a, other, merge)
       IN /\ upd' = [op |-> "alias.update", self |-> a, before |-> subject,
                     own_before |-> alias_own, other |-> other, merge |-> merge,
                     out |-> out.kind]
          /\ subject' = IF IsOk(out) THEN out.val.target ELSE subject
          /\ alias_own' = IF IsOk(out) THEN [alias_own EXCEPT ![a] = out.val.own]
                          ELSE alias_own
    /\ nupd' = nupd + 1
    /\ alias_res' = [op |-> "update", self |-> a, target |-> alias_target[a],
                     out |-> AliasUpdate(a, other, merge).kind]
    /\ UNCHANGED <<alias_target, lexVars, tokVars, scopeVars, scanVars, interpVars, objVars>>

InitAliasUpdate ==
    /\ subject = FullDefinition(click, "Verb", NoneSeq, EmptyMap, EmptyMap, EmptyMap)
    /\ upd = NoRes
    /\ nupd = 0
    /\ alias_target = <<>>
    /\ alias_res = NoRes
    /\ alias_own = <<>>
    /\ LexIdle
    /\ TokIdle
    /\ ScopeIdle
    /\ ScanIdle
    /\ InterpIdle
    /\ ObjIdle

NextAliasUpdate ==
    \/ \E name \in {click, alias_keyword}, t \in 0..Len(alias_target) : MakeAlias(name, t)
    \/ \E a \in 1..Len(alias_target), other \in AliasUpdatePool, merge \in BOOLEAN :
          DoAliasUpdate(a, other, merge)

SpecAliasUpdate == InitAliasUpdate /\ [][NextAliasUpdate]_vars

-----------------------------------------------------------------------------
(* Properties of DefinitionAlias.update *)

\* alias.update(other) has just returned
AliasUpdated == alias_res.op = "update" /\ upd.op = "alias.update" /\ upd.out = "ok"

\* the alias that was updated leads to its ultimate target through at least one
\* other alias
ThroughAlias == IsAlias(alias_target[upd.self])

\* the hooks of other were applied to the ultimate target
HooksForwarded ==
    /\ subject.consumers = UpdateHooks(upd.before.consumers, upd.other.consumers,
                                       upd.merge, TRUE)
    /\ subject.interpretations = UpdateHooks(upd.before.interpretations,
                                             upd.other.interpretations, upd.merge, FALSE)
    /\ subject.outputters = UpdateHooks(upd.before.outputters, upd.other.outputters,
                                        upd.merge, FALSE)

\* of the aliases, only the updated one changed, and only in pattern and title
OnlyOwnPatternAndTitle ==
    /\ Len(alias_own) = Len(upd.own_before)
    /\ \A i \in 1..Len(alias_own) :
        IF i = upd.self THEN alias_own[i].name = upd.own_before[i].name
        ELSE alias_own[i] = upd.own_before[i]

\* C34: alias.update(other) applies the consumers, interpretations and
\* outputters of other to the ultimate target of the alias, through any number
\* of aliases between them, changes only pattern and title of the alias itself,
\* and leaves the pattern, name and token type of the ultimate target and every
\* alias in between as they were.
C34_AliasForwarding ==
    AliasUpdated =>
        /\ HooksForwarded
        /\ OnlyOwnPatternAndTitle
        /\ subject.name = upd.before.name
        /\ subject.token_type = upd.before.token_type
        /\ subject.pattern = upd.before.pattern

\* alias.update(other) applies the hooks of other to the ultimate target and
\* changes only pattern and title of the alias itself and no alias in between;
\* the ultimate target keeps its name and token type, and its pattern becomes
\* that of other as in update(): replaced, or under merge kept where the
\* pattern of other tests False
C34_TargetPatternFollows ==
    AliasUpdated =>
        /\ HooksForwarded
        /\ OnlyOwnPatternAndTitle
        /\ subject.name = upd.before.name
        /\ subject.token_type = upd.before.token_type
        /\ subject.pattern = IF upd.merge /\ PatternFalsy(upd.other.pattern)
                             THEN upd.before.pattern ELSE upd.other.pattern

\* an alias of an alias was updated with a Definition whose pattern is not that
\* of the ultimate target
C34_Witness ==
    /\ AliasUpdated
    /\ ThroughAlias
    /\ upd.other.pattern # upd.before.pattern
    /\ ~PatternFalsy(upd.other.pattern)
    /\ upd.other.consumers # EmptyMap

-----------------------------------------------------------------------------
(* basic.py: the Modules defaults, structure and 'disable scope change', and
   tokenize over them *)

test == <<"t", "e", "s", "t">>
end_test == <<"e", "n", "d", " ", "t", "e", "s", "t">>
scope_change == <<"s", "c", "o", "p", "e", " ", "c", "h", "a", "n", "g", "e">>

\* the pattern of 'scope change': four blanks
Indent == <<" ", " ", " ", " ">>

BasicDefinitions ==
    [m \in {"defaults", "structure", "disable scope change"} |->
        IF m = "defaults"
        THEN [kw |-> EmptyMap,
              tt |-> "Verb" :> DefEntry(FullDefinition(NoneSeq, "Verb", NoneSeq,
                                "Command" :> Bucket(EmptyMap), EmptyMap, EmptyMap))]
        ELSE IF m = "structure"
        THEN [kw |-> test :> DefEntry(FullDefinition(test, "Verb", NoneSeq,
                                "Command" :> Bucket("posttokenize" :> "add_module_loading"
                                                    @@ "postconsume" :> "scopechange_1"),
                                EmptyMap, EmptyMap))
                     @@ end_test :> DefEntry(FullDefinition(end_test, "Verb", NoneSeq,
                                "Command" :> Bucket("postconsume" :> "scopechange_-1"),
                                EmptyMap, EmptyMap))
                     @@ scope_change :> DefEntry(FullDefinition(scope_change, "ScopeChange",
                                Indent, EmptyMap, EmptyMap, EmptyMap)),
              tt |-> "ScopeChange" :> DefEntry(FullDefinition(NoneSeq, "ScopeChange", NoneSeq,
                                "Command" :> Bucket("posttokenize" :> "add_disable_scope_change"),
                                EmptyMap, EmptyMap))]
        ELSE [kw |-> scope_change :> NoneEntry, tt |-> EmptyMap]]

\* the greatest indentation of a line
MaxIndent == 2

RECURSIVE Indented(_, _)
Indented(d, text) == IF d = 0 THEN text ELSE Indent \o Indented(d - 1, text)

\* what follows the indentation of a line: verbs, one with four blanks after
\* it, two run together, and text no keyword matches
BasicTexts ==
    {test, end_test, end_test \o Indent, end_test \o end_test, end_test \o test,
     end_test \o <<"q">> \o end_test, <<"q">>}

\* lines of the basic vocabulary at depth 0..MaxIndent
BasicLines == {Indented(d, text) : d \in 0..MaxIndent, text \in BasicTexts}

\* the number of indentation units a line begins with
RECURSIVE DepthOf(_)
DepthOf(text) ==
    IF Len(text) >= 4 /\ SubSeq(text, 1, 4) = Indent
    THEN 1 + DepthOf(SubSeq(text, 5, Len(text))) ELSE 0

InitBasic ==
    /\ definitions = BasicDefinitions
    /\ required = [m \in DOMAIN BasicDefinitions |->
                    IF m = "structure" THEN <<"defaults">> ELSE <<>>]
    /\ modules = <<"structure">>
    /\ ndefs = 0
    /\ res = NoRes
    /\ UpdIdle
    /\ TokIdle
    /\ ScopeIdle
    /\ AliasIdle
    /\ ScanIdle
    /\ InterpIdle
    /\ ObjIdle

NextBasic ==
    \/ \E line \in BasicLines : TokenizeCall(line)
    \/ TokenizeIteration
    \/ TokenizeEnd

SpecBasic == InitBasic /\ [][NextBasic]_vars

\* the number of ScopeChange tokens the list of tokens begins with
RECURSIVE LeadingScopeChanges(_)
LeadingScopeChanges(toks) ==
    IF toks # <<>> /\ Head(toks).type = "ScopeChange"
    THEN 1 + LeadingScopeChanges(Tail(toks)) ELSE 0

\* the call of tokenize is over
TokenizeOver == pc \in {"returned", "raised"}

\* C35: 'scope change' stays a keyword for every indentation unit a line begins
\* with, and 'disable scope change' is appended only once a token that is not a
\* ScopeChange was made: a line at depth d yields d leading ScopeChange tokens,
\* and no run of four blanks after them is made a ScopeChange.
C35_ScopeChangeRetraction ==
    TokenizeOver =>
        /\ pc = "returned"
        /\ LeadingScopeChanges(found_tokens) = DepthOf(code)
        /\ \A i \in 1..Len(found_tokens) :
            found_tokens[i].type = "ScopeChange" => i <= DepthOf(code)
        /\ ("disable scope change" \in SeqToSet(modules)) <=>
                (\E i \in 1..Len(found_tokens) : found_tokens[i].type # "ScopeChange")

\* what tokenize does over the vocabulary of basic.py: the hook of the first
\* ScopeChange token raises TypeError and that of test raises AttributeError,
\* no token of such a line is returned, and no Module is ever appended
C35_HooksRaise ==
    /\ modules = <<"structure">>
    /\ (TokenizeOver /\ DepthOf(code) >= 1) =>
            (pc = "raised" /\ bad.kind = "TypeError" /\ found_tokens = <<>>)
    /\ (TokenizeOver /\ code = test) =>
            (pc = "raised" /\ bad.kind = "AttributeError" /\ found_tokens = <<>>)

-----------------------------------------------------------------------------
(* tokenizer.py: tokenize, over a definition whose pattern matches the empty
   string *)

\* a Module with two verbs and a Seperator for optional blanks, [ \t]*
OptionalDefinitions ==
    [m \in {"base_module"} |->
        [kw |-> fred :> DefEntry(FullDefinition(fred, "Verb", NoneSeq,
                            EmptyMap, EmptyMap, EmptyMap))
                 @@ wilma :> DefEntry(FullDefinition(wilma, "Verb", NoneSeq,
                            EmptyMap, EmptyMap, EmptyMap))
                 @@ blanks :> DefEntry(FullDefinition(blanks, "Seperator", <<WS0>>,
                            EmptyMap, EmptyMap, EmptyMap)),
         tt |-> EmptyMap]]

\* lines of these keywords, and lines with text no keyword matches
OptionalLines ==
    {fred, fred \o <<" ">> \o wilma, fred \o wilma, <<"q">>, fred \o <<"q">>,
     fred \o <<" ", "q">>, <<" ", " ">> \o wilma}

\* the tokens tokenize is followed for
MaxTokens == 4

\* a pass of the while loop, as long as found_tokens is no longer than the
\* model follows it
TokenizeIterationCapped ==
    /\ Len(found_tokens) < MaxTokens
    /\ TokenizeIteration

InitOptional ==
    /\ definitions = OptionalDefinitions
    /\ required = [m \in DOMAIN OptionalDefinitions |-> <<>>]
    /\ modules = <<"base_module">>
    /\ ndefs = 0
    /\ res = NoRes
    /\ UpdIdle
    /\ TokIdle
    /\ ScopeIdle
    /\ AliasIdle
    /\ ScanIdle
    /\ InterpIdle
    /\ ObjIdle

NextOptional ==
    \/ \E line \in OptionalLines : TokenizeCall(line)
    \/ TokenizeIterationCapped
    \/ TokenizeEnd

SpecOptional == InitOptional /\ [][NextOptional]_vars

\* a pass of the while loop was made and the loop goes on
LoopGoesOn == pc = "while" /\ pc' = "while"

\* the pass made a token that stands for no text
EmptyTokenMade ==
    /\ Len(found_tokens') = Len(found_tokens) + 1
    /\ found_tokens'[Len(found_tokens')].start = found_tokens'[Len(found_tokens')].end

\* C36: tokenize terminates for every line and every Lexicon, definitions whose
\* pattern can match the empty string included: every pass of the while loop
\* either ends the loop or moves the cursor forward.
C36_IterationAdvances == [][LoopGoesOn => start' > start]_vars

\* what tokenize does: a pass of the while loop ends the loop, moves the cursor
\* forward, or makes a token for an empty match and leaves the cursor where it
\* was
C36_AdvancesOrEmptyToken ==
    [][LoopGoesOn => (start' > start \/ (EmptyTokenMade /\ start' = start))]_vars

-----------------------------------------------------------------------------
(* Properties of the spans and the texts of the tokens tokenize returns *)

\* token.code of every token of the list, one after the other:
\* str(token.code_provider) with the token's start and end
RECURSIVE TokenTexts(_)
TokenTexts(toks) ==
    IF toks = <<>> THEN <<>>
    ELSE CommandCodeProviderStr(code, Head(toks).start, Head(toks).end)
            \o TokenTexts(Tail(toks))

\* the spans of the tokens, in the order of the list, start at 0, follow one
\* another without gap or overlap, and end at the end of the line
SpansTile ==
    /\ TiledTo(Len(code))
    /\ \A i \in 1..Len(found_tokens) : found_tokens[i].start <= found_tokens[i].end

\* C37: when tokenize succeeds, the spans of the tokens in the order of the
\* list are contiguous, do not overlap, start at 0 and end at the length of the
\* line, so that the texts of the tokens, one after the other, are the line.
C37_TokenTiling ==
    pc = "returned" => (SpansTile /\ TokenTexts(found_tokens) = code)

\* what tokenize does: the spans of the tokens it returns tile the line, and
\* the text of every token is the whole line
C37_SpansTileTextsDoNot ==
    pc = "returned" =>
        /\ SpansTile
        /\ \A i \in 1..Len(found_tokens) :
            CommandCodeProviderStr(code, found_tokens[i].start, found_tokens[i].end) = code

-----------------------------------------------------------------------------
(* Properties of tokenize after unrecognized text *)

\* tokenize is past the start of text it does not recognize
RunOpened == end # NoneInt /\ pc \in {"while", "after"}

\* C38: once tokenize has met text it does not recognize, it makes no further
\* token and calls no further posttokenize hook: from then on the list of
\* tokens and the active Modules of the Lexicon stay as they were, up to and
\* including the failure of the call.
C38_NoEffectsAfterGarbage ==
    [][RunOpened => (found_tokens' = found_tokens /\ modules' = modules)]_vars

\* tokenize has failed on a line in which fred follows unrecognized text: no
\* token for fred was made and its hook has not appended modifying_module
C38_Witness ==
    /\ BadTokenRaised
    /\ bad.end # NoneInt
    /\ HasAt(fred, bad.end)
    /\ fred \notin prior
    /\ \A i \in 1..Len(found_tokens) : found_tokens[i].keyword # fred
    /\ modules = <<"base_module">>

-----------------------------------------------------------------------------
(* visioninterpreter.py: VisionInterpreter.quit *)

\* sum(command.scopechange for command in commands if command.usable); every
\* command the parser holds is taken as usable
UsableScope(cs) == ScopeLevel(cs)

\* the scopes quit() would close if it took those open when it is called
ScopesOpenNow(cs) == CommandScopes(cs)

\* commands[-1].scopes: the scopes that were open when the last command was
\* read, without what the last command did to them
ScopesOfLast(cs) == CommandScopes(SubSeq(cs, 1, Len(cs) - 1))

\* the lines quit() adds to the subcommand scanner: one "End <type>" for every
\* scope of commands[-1].scopes, the most recent first, if scope is not 0
QuitLines(cs) ==
    IF cs = <<>> \/ UsableScope(cs) = 0 THEN <<>>
    ELSE LET scopes == Reverse(ScopesOfLast(cs))
         IN [i \in 1..Len(scopes) |-> EndVerb(scopes[i].type)]

\* handle_commands over the lines quit() added, from the i-th on: each is
\* parsed, and end_scope_action ends a scope or the command gets the error
RECURSIVE HandleCloses(_, _, _, _)
HandleCloses(cs, interp, close_lines, i) ==
    IF i > Len(close_lines) THEN [children |-> cs, interpreter |-> interp]
    ELSE LET ended == EndScopeAction(cs, MatchingType(close_lines[i]), NoLabel)
             close_url == IF ended.matched THEN CloseUrl(ended.scope) ELSE NoneVal
             gets == /\ close_url # NoneVal
                     /\ (~interp.errorfound \/ interp.interactivity_enabled)
         IN HandleCloses(
                Append(cs, ScopeCommand(close_lines[i], NoLabel, ended.change, FALSE,
                                        NoneVal, ~ended.matched)),
                [interp EXCEPT !.errorfound = @ \/ ~ended.matched,
                               !.current_url = IF gets THEN close_url ELSE @],
                close_lines, i + 1)

\* interpreter.quit(), called when run() ends or is interrupted
Quit ==
    /\ outcome.op # "quit"
    /\ LET close_lines == QuitLines(children)
           handled == HandleCloses(children,
                                   [interpreter EXCEPT !.interactivity_enabled = FALSE],
                                   close_lines, 1)
       IN /\ children' = handled.children
          /\ interpreter' = handled.interpreter
          /\ sub_lines' = sub_lines \o
                [i \in 1..Len(close_lines) |->
                    [depth |-> 0, type |-> close_lines[i], value |-> NoLabel]]
          /\ sub_position' = Len(sub_lines')
          /\ scanner' = SubcommandScanner
          /\ outcome' = CloseOutcome("quit", close_lines, ScopesOpenNow(children),
                                     NoneVal, Len(children))
    /\ UNCHANGED <<file_line, file_position, file_done, lexVars, updVars, tokVars,
                   aliasVars, scanVars, objVars>>

\* a command that neither opens nor closes a scope
PlainCommand ==
    /\ Len(children) < MaxCommands
    /\ children' = Append(children, ScopeCommand("click", NoLabel, 0, FALSE, NoneVal, FALSE))
    /\ outcome' = CloseOutcome("click", NoLabel, NoneVal, NoneVal, NoneVal)
    /\ UNCHANGED <<interpreter, nonCloseVars>>

\* the commands of a session up to quit()
BeforeQuit ==
    \/ \E label \in Labels : TestCommand(label)
    \/ \E label \in Labels, flag_set \in BOOLEAN : RequireCommand(label, flag_set)
    \/ PlainCommand
    \/ \E verb_type \in {"end test", "end require"}, label \in Labels \cup {NoLabel} :
            EndScope(verb_type, label)

NextQuit ==
    \/ outcome.op # "quit" /\ BeforeQuit
    \/ Quit

SpecQuit == InitClose /\ [][NextQuit]_vars

-----------------------------------------------------------------------------
(* Properties of quit *)

\* quit() has returned
HasQuit == outcome.op = "quit"

\* the commands quit() had handled
AddedByQuit == SubSeq(children, outcome.get + 1, Len(children))

\* no command before quit() had an error
NoEarlierError == \A i \in 1..outcome.get : ~children[i].error

\* C39: quit() gives the subcommand scanner one close command for each scope
\* that is open when it is called and for no other, the most recently opened
\* first, so that after they are handled no scope is open and no close was
\* unmatched; also when the last command opened or closed a scope.
C39_QuitClosesOpenScopes ==
    (HasQuit /\ NoEarlierError) =>
        /\ outcome.line = [i \in 1..Len(outcome.ended) |->
                              EndVerb(Reverse(outcome.ended)[i].type)]
        /\ CommandScopes(children) = <<>>
        /\ ScopeLevel(children) = 0
        /\ \A i \in 1..Len(AddedByQuit) : ~AddedByQuit[i].error

\* what quit() does: the close commands it adds are those for the scopes that
\* were open before the last command; they leave no scope open and none is
\* unmatched when the last command neither opened nor closed a scope
C39_ClosesScopesOfLastCommand ==
    (HasQuit /\ NoEarlierError) =>
        /\ outcome.line = QuitLines(SubSeq(children, 1, outcome.get))
        /\ (outcome.get = 0 \/ children[MaxOf({1, outcome.get})].scopechange = 0) =>
            /\ CommandScopes(children) = <<>>
            /\ ScopeLevel(children) = 0
            /\ \A i \in 1..Len(AddedByQuit) : ~AddedByQuit[i].error


-----------------------------------------------------------------------------
(* Dedented lines: the rounds of End line and re-reading *)

\* VisionInterpreter.run takes commands from the parser for as long as next()
\* returns one, so a call of next() that can be made is made
SpecDedent == InitScopes /\ [][NextScopes]_vars /\ WF_vars(NextScopes)

\* the file scanner holds a line it found dedented and has not made a command of
DedentPending == file_line # NoLine

\* this step is a call of next() in which the subcommand scanner read a line
SubcommandLineRead == scanner = SubcommandScanner /\ sub_position' = sub_position + 1

\* every End line of a round is made a command, and the command closes at
\* least one scope of the file
RoundClosesOwnScope ==
    SubcommandLineRead =>
        /\ outcome'.op = "command"
        /\ Len(OwnScopes(CommandScopes(children')))
                < Len(OwnScopes(CommandScopes(children)))

\* the dedented line, read again, is found dedented again or is made a command,
\* and it is made a command when its depth is the number of the file's scopes
RereadAccepted ==
    (FileLineRead /\ DedentPending) =>
        /\ outcome'.line = file_line
        /\ outcome'.op \in {"command", "dedent"}
        /\ outcome'.op = "command"
                <=> file_line.depth = Len(OwnScopes(CommandScopes(children)))

=============================================================================
